---- MODULE Spec2Model ----
(***************************************************************************)
(* A model of the quiz webhook server (src/server.js).                     *)
(*                                                                         *)
(* Text is modelled as JavaScript models it: a string is a sequence of     *)
(* character codes (UTF-16 code units), a Buffer is a sequence of bytes.   *)
(* null / undefined / "" (everything the code tests with `!x`) is the      *)
(* empty sequence <<>> for string-valued variables.                        *)
(*                                                                         *)
(* Intermediate values are passed as operator parameters rather than bound *)
(* by LET: the name of a parameter says which local of the source it is.   *)
(*                                                                         *)
(* Left out: the debug files (page_<t>.html, scripts_combined_<t>.txt,     *)
(* decoded_atob_text_<t>.txt), which are written and never read; failures  *)
(* of fs.writeFileSync; JSON other than objects with string members;       *)
(* bytes above 127 in decoded text (shown as U+FFFD each); a               *)
(* browser.close() that fails (its error is swallowed by the code).        *)
(***************************************************************************)
EXTENDS Integers, Sequences, FiniteSets, TLC

\* ------------------------------------------------------------------------
\* String constants of the source, as character codes
\* ------------------------------------------------------------------------
S_pdfMagic == <<37, 80, 68, 70>>                          \* "%PDF"
S_fileScheme == <<102, 105, 108, 101, 58, 47, 47>>        \* "file://"
S_http == <<104, 116, 116, 112, 58, 47, 47>>              \* "http://"
S_https == <<104, 116, 116, 112, 115, 58, 47, 47>>        \* "https://"
S_dotPdf == <<46, 112, 100, 102>>                         \* ".pdf"
S_submit == <<115, 117, 98, 109, 105, 116>>               \* "submit"
S_atobOpen == <<97, 116, 111, 98, 40>>                    \* "atob("
S_dataPdf == <<100, 97, 116, 97, 58, 97, 112, 112, 108, 105, 99, 97, 116, 105, 111, 110, 47, 112, 100, 102, 59, 98, 97, 115, 101, 54, 52, 44>>  \* "data:application/pdf;base64,"
S_submitUrlKey == <<115, 117, 98, 109, 105, 116, 95, 117, 114, 108>>   \* "submit_url"
S_urlKey == <<117, 114, 108>>                             \* "url"
S_fileKey == <<102, 105, 108, 101>>                       \* "file"
S_sep == <<10, 10>>                                       \* "\n\n"
S_value == <<118, 97, 108, 117, 101>>                     \* "value"
S_tempDir == <<47, 97, 112, 112, 47, 116, 109, 112, 95, 102, 105, 108, 101, 115>>   \* "/app/tmp_files": TEMP_DIR, path.join(__dirname, 'tmp_files')
S_embedded == <<101, 109, 98, 101, 100, 100, 101, 100, 95>>   \* "embedded_"
S_decodedAtob == <<100, 101, 99, 111, 100, 101, 100, 95, 97, 116, 111, 98, 95>>   \* "decoded_atob_"
S_longB64 == <<108, 111, 110, 103, 95, 98, 54, 52, 95>>   \* "long_b64_"
S_quizSaved == <<113, 117, 105, 122, 95, 115, 97, 118, 101, 100, 95>>   \* "quiz_saved_"
S_demoAnswer == <<100, 101, 109, 111, 45, 97, 110, 115, 119, 101, 114, 45, 102, 114, 111, 109, 45, 115, 101, 114, 118, 101, 114>>   \* "demo-answer-from-server"
APP_SECRET == <<114, 101, 112, 108, 97, 99, 101, 95, 109, 101, 95, 115, 101, 99, 114, 101, 116>>   \* "replace_me_secret": process.env.APP_SECRET || 'replace_me_secret'

Null == <<>>

\* ------------------------------------------------------------------------
\* Character classes and elementary string operations
\* ------------------------------------------------------------------------
IsUpper(c) == c \in 65..90
IsLowerAlpha(c) == c \in 97..122
IsDigit(c) == c \in 48..57
Lower(c) == IF IsUpper(c) THEN c + 32 ELSE c

\* \s of a JavaScript regular expression (the code points used here)
IsSpace(c) == c \in {9, 10, 11, 12, 13, 32, 160}

\* [^\s'"]
IsUrlChar(c) == ~IsSpace(c) /\ c # 39 /\ c # 34

\* [A-Za-z0-9+/=\r\n]
IsB64RunChar(c) == IsUpper(c) \/ IsLowerAlpha(c) \/ IsDigit(c) \/ c \in {43, 47, 61, 13, 10}

\* a || b for indices (0: none) and for strings (Null: none)
OrIdx(a, b) == IF a # 0 THEN a ELSE b
OrStr(a, b) == IF a # Null THEN a ELSE b

\* the smallest index in lo..hi that satisfies P, or 0 (halving keeps the
\* evaluation shallow on long texts)
RECURSIVE FirstIdx(_, _, _)
FirstIdx(P(_), lo, hi) ==
    IF lo > hi THEN 0
    ELSE IF lo = hi THEN (IF P(lo) THEN lo ELSE 0)
    ELSE OrIdx(FirstIdx(P, lo, (lo + hi) \div 2), FirstIdx(P, ((lo + hi) \div 2) + 1, hi))

\* the largest index in lo..hi that satisfies P, or 0
RECURSIVE LastIdx(_, _, _)
LastIdx(P(_), lo, hi) ==
    IF lo > hi THEN 0
    ELSE IF lo = hi THEN (IF P(lo) THEN lo ELSE 0)
    ELSE OrIdx(LastIdx(P, ((lo + hi) \div 2) + 1, hi), LastIdx(P, lo, (lo + hi) \div 2))

\* the end of a run that starts at i in a text of length n, given the first
\* index k >= i outside the run (0: none)
RunEndAt(k, i, n) == IF k # 0 THEN k - 1 ELSE IF i > n THEN i - 1 ELSE n

\* last index of the maximal run, starting at i, of characters that satisfy P
\* (i - 1 when the run is empty)
RunEnd(t, i, P(_)) == RunEndAt(FirstIdx(LAMBDA x : ~P(t[x]), i, Len(t)), i, Len(t))

\* t has p at position i; ci: compare case-insensitively (regex flag i)
HasAt(t, i, p, ci) ==
    /\ i >= 1
    /\ i + Len(p) - 1 <= Len(t)
    /\ \A k \in 1..Len(p) :
          IF ci THEN Lower(t[i + k - 1]) = Lower(p[k]) ELSE t[i + k - 1] = p[k]

\* smallest i >= from with p at i, or 0
IndexFrom(t, p, from, ci) == FirstIdx(LAMBDA k : HasAt(t, k, p, ci), from, Len(t) - Len(p) + 1)

Includes(t, p, ci) == IndexFrom(t, p, 1, ci) # 0

\* String.prototype.startsWith
StartsWith(t, p) == HasAt(t, 1, p, FALSE)

\* s.replace(/\s+/g, '')
StripSpace(t) == SelectSeq(t, LAMBDA c : ~IsSpace(c))

\* last index of the maximal run of [^\s'"] starting at i
UrlRunEnd(t, i) == RunEnd(t, i, IsUrlChar)

\* last index of the maximal run of [A-Za-z0-9+/=\r\n] starting at i
B64RunEnd(t, i) == RunEnd(t, i, IsB64RunChar)

\* first index >= i that is not white space
SkipSpace(t, i) == RunEnd(t, i, IsSpace) + 1

\* the character at i, 0 outside the text
CharAt(t, i) == IF i >= 1 /\ i <= Len(t) THEN t[i] ELSE 0

\* Array.prototype.join with separator sep
RECURSIVE Join(_, _)
Join(parts, sep) ==
    IF Len(parts) = 0 THEN <<>>
    ELSE IF Len(parts) = 1 THEN parts[1]
    ELSE parts[1] \o sep \o Join(Tail(parts), sep)

\* ------------------------------------------------------------------------
\* The regular expressions of the source
\* ------------------------------------------------------------------------

\* /\.pdf(\?|$)/i matches at i
PdfExtAt(s, i) == HasAt(s, i, S_dotPdf, TRUE) /\ (i + 4 > Len(s) \/ s[i + 4] = 63)

\* /\.pdf(\?|$)/i.test(s)
IsPdfHref(s) == FirstIdx(LAMBDA i : PdfExtAt(s, i), 1, Len(s)) # 0

\* /\.pdf/i.test(s)
HasPdfExt(s) == Includes(s, S_dotPdf, TRUE)

\* /submit/i.test(s)
HasSubmit(s) == Includes(s, S_submit, TRUE)

\* index just after "http://" or "https://" at i (case-insensitive), or 0
SchemeEnd(t, i) ==
    IF HasAt(t, i, S_https, TRUE) THEN i + Len(S_https)
    ELSE IF HasAt(t, i, S_http, TRUE) THEN i + Len(S_http)
    ELSE 0

\* [^\s'"]+\.pdf[^\s'"]* matches from k: the run from k holds ".pdf" after at
\* least one character; the greedy match then extends to the end of the run
PdfUrlTail(t, k) == \E p \in (k + 1)..(UrlRunEnd(t, k) - 3) : HasAt(t, p, S_dotPdf, TRUE)

\* /https?:\/\/[^\s'"]+\.pdf[^\s'"]*/i matches at i
PdfUrlAt(t, i) == SchemeEnd(t, i) # 0 /\ PdfUrlTail(t, SchemeEnd(t, i))

\* the match that starts at i (0: no match): from i to the end of its run
UrlMatch(t, i) == IF i = 0 THEN Null ELSE SubSeq(t, i, UrlRunEnd(t, SchemeEnd(t, i)))

\* text.match(/https?:\/\/[^\s'"]+\.pdf[^\s'"]*/i): m[0], or Null
MatchPdfUrl(t) == UrlMatch(t, FirstIdx(LAMBDA k : PdfUrlAt(t, k), 1, Len(t)))

\* "submit" lies in q+1..e
SubmitAfter(t, q, e) == \E p \in (q + 1)..(e - 5) : HasAt(t, p, S_submit, TRUE)

\* [^\s'"]+\/[^\s'"]*submit[^\s'"]* matches from k: the run from k holds,
\* after at least one character, a '/' with "submit" somewhere after it
SubmitUrlTail(t, k) ==
    \E q \in (k + 1)..UrlRunEnd(t, k) : t[q] = 47 /\ SubmitAfter(t, q, UrlRunEnd(t, k))

\* /https?:\/\/[^\s'"]+\/[^\s'"]*submit[^\s'"]*/i matches at i
SubmitUrlAt(t, i) == SchemeEnd(t, i) # 0 /\ SubmitUrlTail(t, SchemeEnd(t, i))

\* text.match(/https?:\/\/[^\s'"]+\/[^\s'"]*submit[^\s'"]*/i): m[0], or Null
MatchSubmitUrl(t) == UrlMatch(t, FirstIdx(LAMBDA k : SubmitUrlAt(t, k), 1, Len(t)))

\* ------------------------------------------------------------------------
\* Buffer.from(s, 'base64'), Buffer.toString
\* ------------------------------------------------------------------------

\* value of a base64 (or base64url) character, -1 for any other character
B64Val(c) ==
    IF IsUpper(c) THEN c - 65
    ELSE IF IsLowerAlpha(c) THEN c - 71
    ELSE IF IsDigit(c) THEN c + 4
    ELSE IF c = 43 \/ c = 45 THEN 62
    ELSE IF c = 47 \/ c = 95 THEN 63
    ELSE -1

\* s before index i (all of s when i = 0)
Before(s, i) == IF i = 0 THEN s ELSE SubSeq(s, 1, i - 1)

\* the part of s before its first '=' (decoding stops at the padding)
UpToPad(s) == Before(s, FirstIdx(LAMBDA k : s[k] = 61, 1, Len(s)))

B64Vals(v) == [i \in 1..Len(v) |-> B64Val(v[i])]

\* the values of the base64 characters of s; every other character (white
\* space included) is skipped
ToSextets(s) == B64Vals(SelectSeq(s, LAMBDA c : B64Val(c) >= 0))

\* byte k of the decoding of the sextets x
ByteAt(x, k) ==
    CASE (k - 1) % 3 = 0 -> x[4 * ((k - 1) \div 3) + 1] * 4 + (x[4 * ((k - 1) \div 3) + 2] \div 16)
      [] (k - 1) % 3 = 1 -> (x[4 * ((k - 1) \div 3) + 2] % 16) * 16 + (x[4 * ((k - 1) \div 3) + 3] \div 4)
      [] OTHER -> (x[4 * ((k - 1) \div 3) + 3] % 4) * 64 + x[4 * ((k - 1) \div 3) + 4]

\* n sextets give three bytes for each group of four; a trailing group of two
\* gives one byte, of three gives two bytes, of one gives none
ByteCount(n) == (n \div 4) * 3 + (IF n % 4 = 2 THEN 1 ELSE IF n % 4 = 3 THEN 2 ELSE 0)

SextetsToBytes(x) == [k \in 1..ByteCount(Len(x)) |-> ByteAt(x, k)]

\* Buffer.from(s, 'base64'): never throws
Base64Decode(s) == SextetsToBytes(ToSextets(UpToPad(s)))

\* buf.slice(0,4).toString() === '%PDF'
HasPdfMagic(buf) == Len(buf) >= 4 /\ SubSeq(buf, 1, 4) = S_pdfMagic

\* buf.toString('utf8'): ASCII bytes are themselves; any other byte is shown
\* as the replacement character U+FFFD
BufToString(buf) == [i \in 1..Len(buf) |-> IF buf[i] < 128 THEN buf[i] ELSE 65533]

\* ------------------------------------------------------------------------
\* The helpers of the source
\* ------------------------------------------------------------------------

\* /data:application\/pdf;base64,([A-Za-z0-9+/=\r\n]+)/i matches at i
DataPdfAt(txt, i) ==
    /\ HasAt(txt, i, S_dataPdf, TRUE)
    /\ i + Len(S_dataPdf) <= Len(txt)
    /\ IsB64RunChar(txt[i + Len(S_dataPdf)])

\* m[1].replace(/\s+/g, '') of the match at i (0: no match, null)
DataPayload(txt, i) ==
    IF i = 0 THEN Null
    ELSE StripSpace(SubSeq(txt, i + Len(S_dataPdf), B64RunEnd(txt, i + Len(S_dataPdf))))

\* findDataPdfInText: the stripped payload of the first data URI, or Null
findDataPdfInText(txt) == DataPayload(txt, FirstIdx(LAMBDA k : DataPdfAt(txt, k), 1, Len(txt)))

\* the regular expression of findLongBase64Blob asks for runs of 200 or more
BlobRunMin == 200

\* findLongBase64Blob(txt, minLen): the first run of BlobRunMin or more
\* characters of [A-Za-z0-9+/=\r\n] whose stripped form has minLen or more.
\* FindBlobFrom looks for the next run from i on, BlobRun takes the run that
\* starts at b, BlobCandidate tests the run b..e.
RECURSIVE FindBlobFrom(_, _, _)
RECURSIVE BlobRun(_, _, _)
RECURSIVE BlobCandidate(_, _, _, _)
FindBlobFrom(txt, i, minLen) ==
    BlobRun(txt, FirstIdx(LAMBDA k : IsB64RunChar(txt[k]), i, Len(txt)), minLen)

BlobRun(txt, b, minLen) ==
    IF b = 0 THEN Null ELSE BlobCandidate(txt, b, B64RunEnd(txt, b), minLen)

\* BlobCandidate that passes over a run whose bytes do not begin with %PDF and
\* goes on to the runs after it
BlobCandidate_SkipsNonPdf(txt, b, e, minLen) ==
    IF /\ e - b + 1 >= BlobRunMin
       /\ Len(StripSpace(SubSeq(txt, b, e))) >= minLen
       /\ HasPdfMagic(Base64Decode(StripSpace(SubSeq(txt, b, e))))
    THEN StripSpace(SubSeq(txt, b, e))
    ELSE FindBlobFrom(txt, e + 1, minLen)

BlobCandidate(txt, b, e, minLen) ==
    IF e - b + 1 >= BlobRunMin /\ Len(StripSpace(SubSeq(txt, b, e))) >= minLen
    THEN StripSpace(SubSeq(txt, b, e))
    ELSE FindBlobFrom(txt, e + 1, minLen)

findLongBase64Blob(txt, minLen) == FindBlobFrom(txt, 1, minLen)

\* the closing quote of an atob literal: the smallest b >= from with txt[b] = q
\* that is followed by \s*\) (the lazy [\s\S]*? stops at the first such quote)
CloseQuote(txt, from, q) ==
    FirstIdx(LAMBDA b : txt[b] = q /\ CharAt(txt, SkipSpace(txt, b + 1)) = 41, from, Len(txt))

\* the loop over atobRe.exec(combinedText): the literals of all matches of
\* /atob\(\s*(`[\s\S]*?`|"[\s\S]*?"|'[\s\S]*?')\s*\)/g from position i on, in
\* text order, each with its surrounding quotes sliced off.  AtobAt: "atob("
\* stands at at; AtobQuote: the literal would open at a; AtobLiteral: and
\* close at b (0: no match starts at at).
RECURSIVE AtobMatchesFrom(_, _)
RECURSIVE AtobAt(_, _)
RECURSIVE AtobQuote(_, _, _)
RECURSIVE AtobLiteral(_, _, _, _)
AtobMatchesFrom(txt, i) == AtobAt(txt, IndexFrom(txt, S_atobOpen, i, FALSE))

AtobAt(txt, at) ==
    IF at = 0 THEN <<>> ELSE AtobQuote(txt, at, SkipSpace(txt, at + Len(S_atobOpen)))

AtobQuote(txt, at, a) ==
    AtobLiteral(txt, at, a,
                IF CharAt(txt, a) \in {96, 34, 39} THEN CloseQuote(txt, a + 1, txt[a]) ELSE 0)

AtobLiteral(txt, at, a, b) ==
    IF b = 0 THEN AtobMatchesFrom(txt, at + 1)
    ELSE <<SubSeq(txt, a + 1, b - 1)>> \o AtobMatchesFrom(txt, SkipSpace(txt, b + 1) + 1)

atobMatches(txt) == AtobMatchesFrom(txt, 1)

\* ------------------------------------------------------------------------
\* JSON.parse, for the JSON texts that are objects with string members (no
\* escapes); every other text is a parse error.  A parsed object is the
\* sequence of its <<key, value>> members.
\* ------------------------------------------------------------------------
JsonError == [ok |-> FALSE, members |-> <<>>]

JsonObject(members) == [ok |-> TRUE, members |-> members]

IsJsonWs(c) == c \in {9, 10, 13, 32}

SkipJsonWs(t, i) == RunEnd(t, i, IsJsonWs) + 1

\* k if it is the index of a quote, else 0
QuoteAt(t, k) == IF k # 0 /\ t[k] = 34 THEN k ELSE 0

\* index of the quote closing the string whose content starts at j, or 0
StrEnd(t, j) == QuoteAt(t, FirstIdx(LAMBDA x : t[x] = 34 \/ t[x] = 92 \/ t[x] < 32, j, Len(t)))

\* members from position i (the opening quote of a key) to the closing brace:
\* the key is i+1..ke-1, the colon at c, the value v+1..ve-1, then at n a
\* comma or the closing brace
RECURSIVE ParseMembers(_, _, _)
RECURSIVE ParseKey(_, _, _, _)
RECURSIVE ParseColon(_, _, _, _, _)
RECURSIVE ParseValue(_, _, _, _, _)
RECURSIVE ParseValueEnd(_, _, _, _, _, _)
RECURSIVE ParseNext(_, _, _)
ParseMembers(t, i, acc) ==
    IF CharAt(t, i) # 34 THEN JsonError ELSE ParseKey(t, i, StrEnd(t, i + 1), acc)

ParseKey(t, i, ke, acc) ==
    IF ke = 0 THEN JsonError ELSE ParseColon(t, i, ke, SkipJsonWs(t, ke + 1), acc)

ParseColon(t, i, ke, c, acc) ==
    IF CharAt(t, c) # 58 THEN JsonError ELSE ParseValue(t, i, ke, SkipJsonWs(t, c + 1), acc)

ParseValue(t, i, ke, v, acc) ==
    IF CharAt(t, v) # 34 THEN JsonError ELSE ParseValueEnd(t, i, ke, v, StrEnd(t, v + 1), acc)

ParseValueEnd(t, i, ke, v, ve, acc) ==
    IF ve = 0 THEN JsonError
    ELSE ParseNext(t, SkipJsonWs(t, ve + 1),
                   Append(acc, <<SubSeq(t, i + 1, ke - 1), SubSeq(t, v + 1, ve - 1)>>))

ParseNext(t, n, acc) ==
    IF CharAt(t, n) = 44 THEN ParseMembers(t, SkipJsonWs(t, n + 1), acc)
    ELSE IF CharAt(t, n) = 125 /\ SkipJsonWs(t, n + 1) > Len(t) THEN JsonObject(acc)
    ELSE JsonError

\* the object whose first member or closing brace is at i
ParseObject(t, i) ==
    IF CharAt(t, i) = 125
    THEN (IF SkipJsonWs(t, i + 1) > Len(t) THEN JsonObject(<<>>) ELSE JsonError)
    ELSE ParseMembers(t, i, <<>>)

JsonParse(t) == IF CharAt(t, 1) # 123 THEN JsonError ELSE ParseObject(t, SkipJsonWs(t, 2))

\* parsed[key] for a string member: the value of the last member named key
\* (undefined, here Null, when there is none)
RECURSIVE FieldFrom(_, _, _)
FieldFrom(members, key, i) ==
    IF i = 0 THEN Null
    ELSE IF members[i][1] = key THEN members[i][2]
    ELSE FieldFrom(members, key, i - 1)

Field(parsed, key) == FieldFrom(parsed.members, key, Len(parsed.members))

LastIndexOf(t, c, i) == LastIdx(LAMBDA k : t[k] = c, 1, i)

\* JSON.parse(m[0]) for the match first..last of /\{[\s\S]*\}/
ParseBlock(txt, first, last) ==
    IF first = 0 \/ last < first THEN JsonError ELSE JsonParse(SubSeq(txt, first, last))

\* extractJsonBlock: JSON.parse of txt.match(/\{[\s\S]*\}/), the text from the
\* first '{' to the last '}'; JsonError stands for the null it returns
extractJsonBlock(txt) ==
    ParseBlock(txt, IndexFrom(txt, <<123>>, 1, FALSE), LastIndexOf(txt, 125, Len(txt)))

\* ------------------------------------------------------------------------
\* Temporary files (TEMP_DIR) and the resolved reference
\* ------------------------------------------------------------------------

\* path.join(TEMP_DIR, `${prefix}${Date.now()}.pdf`); the clock value t is
\* written as one digit
TempPdfName(prefix, t) == S_tempDir \o <<47>> \o prefix \o <<48 + t>> \o S_dotPdf

\* What one strategy yields: found is the truthiness of the pdfUrl it sets;
\* local, path and bytes describe the file it wrote (fs.writeFileSync) when
\* the reference is a file:// URL of a temporary file; tried counts the
\* literals the decode-call scan decoded.
NoRef == [found |-> FALSE, pdfUrl |-> Null, local |-> FALSE, path |-> Null, bytes |-> <<>>, tried |-> 0]

RemoteRef(url) == [found |-> url # Null, pdfUrl |-> url, local |-> FALSE, path |-> Null, bytes |-> <<>>, tried |-> 0]

LocalRef(prefix, t, buf) ==
    [found |-> TRUE, pdfUrl |-> S_fileScheme \o TempPdfName(prefix, t), local |-> TRUE,
     path |-> TempPdfName(prefix, t), bytes |-> buf, tried |-> 0]

\* ------------------------------------------------------------------------
\* The strategies
\* ------------------------------------------------------------------------

\* Array.prototype.find: the first element of seq that satisfies Test, or Null
RECURSIVE FirstWith(_, _, _)
FirstWith(seq, Test(_), i) ==
    IF i > Len(seq) THEN Null
    ELSE IF Test(seq[i]) THEN seq[i]
    ELSE FirstWith(seq, Test, i + 1)

\* page.evaluate of lines 81-89: the submit URL of the page
FindSubmitUrl(pg) ==
    OrStr(FirstWith(pg.links, HasSubmit, 1),
          OrStr(FirstWith(pg.forms, HasSubmit, 1), MatchSubmitUrl(pg.body)))

\* 1) page.evaluate of lines 93-99: direct pdf link in the DOM, else in the text
DirectSearch(pg) == OrStr(FirstWith(pg.links, IsPdfHref, 1), MatchPdfUrl(pg.body))

\* 2a) data:application/pdf;base64,... : decoded and written without a look
\* at the bytes
\* DataUriRef that keeps the decoded bytes only if they begin with %PDF
DataUriRef_ChecksMagic(dataPdfB64, t) ==
    IF dataPdfB64 # Null /\ HasPdfMagic(Base64Decode(dataPdfB64))
    THEN LocalRef(S_embedded, t, Base64Decode(dataPdfB64))
    ELSE NoRef

DataUriRef(dataPdfB64, t) ==
    IF dataPdfB64 # Null THEN LocalRef(S_embedded, t, Base64Decode(dataPdfB64)) ELSE NoRef

DataUriScan(txt, t) == DataUriRef(findDataPdfInText(txt), t)

\* parsed.url if it names a pdf, else parsed.file if it names a pdf
PdfField(url, file) ==
    IF url # Null /\ HasPdfExt(url) THEN url
    ELSE IF file # Null /\ HasPdfExt(file) THEN file
    ELSE Null

\* the pdf reference in the JSON block of a decoded literal
DecodedJsonUrl(parsed) ==
    IF parsed.ok THEN PdfField(Field(parsed, S_urlKey), Field(parsed, S_fileKey)) ELSE Null

\* the url a decoded atob text gives: a pdf URL in it, else the url or file
\* member of its JSON block
UrlInDecodedText(txt) == OrStr(MatchPdfUrl(txt), DecodedJsonUrl(extractJsonBlock(txt)))

\* 2b) the loop `for (const b64 of atobMatches)` from literal i on: AtobTry
\* looks at the decoded buffer, AtobText at the url found in its text
RECURSIVE AtobLoop(_, _, _)
RECURSIVE AtobTry(_, _, _, _)
RECURSIVE AtobText(_, _, _, _)
AtobLoop(lits, i, t) ==
    IF i > Len(lits) THEN [NoRef EXCEPT !.tried = Len(lits)]
    ELSE AtobTry(lits, i, t, Base64Decode(StripSpace(lits[i])))

\* AtobTry without the break after a %PDF literal: a later literal that
\* yields a reference replaces it
AtobTry_NoBreak(lits, i, t, buf) ==
    IF HasPdfMagic(buf) /\ ~AtobLoop(lits, i + 1, t).found
    THEN [LocalRef(S_decodedAtob, t, buf) EXCEPT !.tried = i]
    ELSE IF HasPdfMagic(buf) THEN AtobLoop(lits, i + 1, t)
    ELSE AtobText(lits, i, t, UrlInDecodedText(BufToString(buf)))

AtobTry(lits, i, t, buf) ==
    IF HasPdfMagic(buf) THEN [LocalRef(S_decodedAtob, t, buf) EXCEPT !.tried = i]
    ELSE AtobText(lits, i, t, UrlInDecodedText(BufToString(buf)))

AtobText(lits, i, t, url) ==
    IF url # Null THEN [RemoteRef(url) EXCEPT !.tried = i] ELSE AtobLoop(lits, i + 1, t)

AtobScan(txt, t) == AtobLoop(atobMatches(txt), 1, t)

\* findLongBase64Blob(combinedText, 300)
BlobMinLen == 300

\* 2c) the first long base64 blob, kept only if it decodes to %PDF
LongBlobBuf(buf, t) == IF HasPdfMagic(buf) THEN LocalRef(S_longB64, t, buf) ELSE NoRef

LongBlobRef(longB64, t) ==
    IF longB64 # Null THEN LongBlobBuf(Base64Decode(longB64), t) ELSE NoRef

LongBlobScan(txt, t) == LongBlobRef(findLongBase64Blob(txt, BlobMinLen), t)

\* 2d) url or file member of the JSON block of the combined text
JsonRef(parsed) ==
    IF parsed.ok THEN RemoteRef(PdfField(Field(parsed, S_urlKey), Field(parsed, S_fileKey)))
    ELSE NoRef

JsonScan(txt) == JsonRef(extractJsonBlock(txt))

\* line 257: parsed.url becomes the submit URL if none is known and it
\* names "submit"
SubmitFromUrl(submitUrl, url) ==
    IF submitUrl = Null /\ url # Null /\ HasSubmit(url) THEN url ELSE submitUrl

\* lines 256-257: the submit URL after the JSON scan
SubmitFromJson(parsed, submitUrl) ==
    IF parsed.ok
    THEN SubmitFromUrl(OrStr(submitUrl, Field(parsed, S_submitUrlKey)), Field(parsed, S_urlKey))
    ELSE submitUrl

JsonSubmitUrl(txt, submitUrl) == SubmitFromJson(extractJsonBlock(txt), submitUrl)

\* the outcome of the scans: the reference, the scan that set pdfUrl ("none"
\* when none did), the scans entered, the submit URL afterwards
Scanned(ref, by, ran, submitUrl) == [ref |-> ref, by |-> by, ran |-> ran, submitUrl |-> submitUrl]

\* lines 243-261, entered with the count of literals the decode-call scan tried
ScanJson(txt, submitUrl, tried, d) ==
    Scanned([d EXCEPT !.tried = tried], IF d.found THEN "json" ELSE "none",
            <<"dataUri", "atob", "longBlob", "json">>, JsonSubmitUrl(txt, submitUrl))

\* ScanLongBlob without the `if (!pdfUrl)` around 2d: the structure scan runs
\* after a blob was accepted and its reference replaces the blob's
ScanLongBlob_NoGuard(txt, submitUrl, tried, c) ==
    IF c.found /\ ~JsonScan(txt).found
    THEN Scanned([c EXCEPT !.tried = tried], "longBlob", <<"dataUri", "atob", "longBlob">>, submitUrl)
    ELSE ScanJson(txt, submitUrl, tried, JsonScan(txt))

\* lines 222-241, then 2d if pdfUrl is still unset
ScanLongBlob(txt, submitUrl, tried, c) ==
    IF c.found
    THEN Scanned([c EXCEPT !.tried = tried], "longBlob", <<"dataUri", "atob", "longBlob">>, submitUrl)
    ELSE ScanJson(txt, submitUrl, tried, JsonScan(txt))

\* lines 172-221, then 2c if pdfUrl is still unset
ScanAtob(txt, submitUrl, t, b) ==
    IF b.found THEN Scanned(b, "atob", <<"dataUri", "atob">>, submitUrl)
    ELSE ScanLongBlob(txt, submitUrl, b.tried, LongBlobScan(txt, t))

\* lines 159-170, then 2b if pdfUrl is still unset
ScanDataUri(txt, submitUrl, t, a) ==
    IF a.found THEN Scanned(a, "dataUri", <<"dataUri">>, submitUrl)
    ELSE ScanAtob(txt, submitUrl, t, AtobScan(txt, t))

\* lines 159-261: the scans over the combined text, each entered only while
\* pdfUrl is still unset
ScriptScan(txt, submitUrl, t) == ScanDataUri(txt, submitUrl, t, DataUriScan(txt, t))

\* ------------------------------------------------------------------------
\* The inputs: requests, pages, script bodies, documents
\* ------------------------------------------------------------------------
\* http://h/submit
U_submit == <<104, 116, 116, 112, 58, 47, 47, 104, 47, 115, 117, 98, 109, 105, 116>>
\* http://h/f/submit
U_formSubmit == <<104, 116, 116, 112, 58, 47, 47, 104, 47, 102, 47, 115, 117, 98, 109, 105, 116>>
\* http://h/about
U_other == <<104, 116, 116, 112, 58, 47, 47, 104, 47, 97, 98, 111, 117, 116>>
\* http://h/q.pdf?v=1
U_pdfLink == <<104, 116, 116, 112, 58, 47, 47, 104, 47, 113, 46, 112, 100, 102, 63, 118, 61, 49>>
\* file:///app/tmp_files/embedded_0.pdf: a link to a temporary file of the server
U_localLink == S_fileScheme \o TempPdfName(S_embedded, 0)
\* Get http://h/t.pdf now
T_bodyPdf == <<71, 101, 116, 32, 104, 116, 116, 112, 58, 47, 47, 104, 47, 116, 46, 112, 100, 102, 32, 110, 111, 119>>
\* Post to http://h/api/submit please
T_bodySubmit == <<80, 111, 115, 116, 32, 116, 111, 32, 104, 116, 116, 112, 58, 47, 47, 104, 47, 97, 112, 105, 47, 115, 117, 98, 109, 105, 116, 32, 112, 108, 101, 97, 115, 101>>
\* var d="data:application/pdf;base64,RE9D\nMQ==";var p=atob(\'JVBERi0x\');
T_dataAtob == <<118, 97, 114, 32, 100, 61, 34, 100, 97, 116, 97, 58, 97, 112, 112, 108, 105, 99, 97, 116, 105, 111, 110, 47, 112, 100, 102, 59, 98, 97, 115, 101, 54, 52, 44, 82, 69, 57, 68, 10, 77, 81, 61, 61, 34, 59, 118, 97, 114, 32, 112, 61, 97, 116, 111, 98, 40, 39, 74, 86, 66, 69, 82, 105, 48, 120, 39, 41, 59>>
\* a=atob(\'aGVsbG8=\');b=atob("JVBE Ri0x");c=atob(`JVBERi0y`);
T_atob3 == <<97, 61, 97, 116, 111, 98, 40, 39, 97, 71, 86, 115, 98, 71, 56, 61, 39, 41, 59, 98, 61, 97, 116, 111, 98, 40, 34, 74, 86, 66, 69, 32, 82, 105, 48, 120, 34, 41, 59, 99, 61, 97, 116, 111, 98, 40, 96, 74, 86, 66, 69, 82, 105, 48, 121, 96, 41, 59>>
\* u=atob('aHR0cDovL2gvYS5wZGY=');p=atob('JVBERi0x');
T_urlThenPdf == <<117, 61, 97, 116, 111, 98, 40, 39, 97, 72, 82, 48, 99, 68, 111, 118, 76, 50, 103, 118, 89, 83, 53, 119, 90, 71, 89, 61, 39, 41, 59, 112, 61, 97, 116, 111, 98, 40, 39, 74, 86, 66, 69, 82, 105, 48, 120, 39, 41, 59>>
\* j=atob('eyJmaWxlIjoiaHR0cDovL2gvYi5wZGYifQ==');p=atob('JVBERi0y');
T_jsonThenPdf == <<106, 61, 97, 116, 111, 98, 40, 39, 101, 121, 74, 109, 97, 87, 120, 108, 73, 106, 111, 105, 97, 72, 82, 48, 99, 68, 111, 118, 76, 50, 103, 118, 89, 105, 53, 119, 90, 71, 89, 105, 102, 81, 61, 61, 39, 41, 59, 112, 61, 97, 116, 111, 98, 40, 39, 74, 86, 66, 69, 82, 105, 48, 121, 39, 41, 59>>
\* a=atob('aGVsbG8=');
T_junk == <<97, 61, 97, 116, 111, 98, 40, 39, 97, 71, 86, 115, 98, 71, 56, 61, 39, 41, 59>>
\* c=atob( 'JVBERi0y' );
T_atobPdf2 == <<99, 61, 97, 116, 111, 98, 40, 32, 39, 74, 86, 66, 69, 82, 105, 48, 121, 39, 32, 41, 59>>
\* {"file":"http://h/c.pdf","submit_url":"http://h/submit3"}
T_json == <<123, 34, 102, 105, 108, 101, 34, 58, 34, 104, 116, 116, 112, 58, 47, 47, 104, 47, 99, 46, 112, 100, 102, 34, 44, 34, 115, 117, 98, 109, 105, 116, 95, 117, 114, 108, 34, 58, 34, 104, 116, 116, 112, 58, 47, 47, 104, 47, 115, 117, 98, 109, 105, 116, 51, 34, 125>>
\* {"url":"http://h/submit4"}
T_jsonSubmit == <<123, 34, 117, 114, 108, 34, 58, 34, 104, 116, 116, 112, 58, 47, 47, 104, 47, 115, 117, 98, 109, 105, 116, 52, 34, 125>>
\* function f(){return 1}
T_code == <<102, 117, 110, 99, 116, 105, 111, 110, 32, 102, 40, 41, 123, 114, 101, 116, 117, 114, 110, 32, 49, 125>>
\* %PDF-9
D_remote == <<37, 80, 68, 70, 45, 57>>
\* a@b.c
E_email == <<97, 64, 98, 46, 99>>
\* guess
E_wrong == <<103, 117, 101, 115, 115>>
\* http://h/quiz
E_quiz == <<104, 116, 116, 112, 58, 47, 47, 104, 47, 113, 117, 105, 122>>

\* n copies of s
Rep(s, n) == [i \in 1..(n * Len(s)) |-> s[((i - 1) % Len(s)) + 1]]

\* "JVBERi0x" and 73 times "AAAA": 300 base64 characters that decode to %PDF-1...
B_pdfBlob == <<74, 86, 66, 69, 82, 105, 48, 120>> \o Rep(<<65, 65, 65, 65>>, 73)

\* 75 times "QUFB", a line break in the middle: 300 base64 characters that do
\* not decode to %PDF
B_otherBlob == Rep(<<81, 85, 70, 66>>, 40) \o <<13, 10>> \o Rep(<<81, 85, 70, 66>>, 35)

\* var b='<blob>';
T_pdfBlob == <<118, 97, 114, 32, 98, 61, 39>> \o B_pdfBlob \o <<39, 59>>

\* x='<other blob>';y='<pdf blob>';
T_twoBlobs == <<120, 61, 39>> \o B_otherBlob \o <<39, 59, 121, 61, 39>> \o B_pdfBlob \o <<39, 59>>

\* "JVBERi0x" and 58 times "AAAA": 240 base64 characters that decode to %PDF-1...
B_shortPdfBlob == <<74, 86, 66, 69, 82, 105, 48, 120>> \o Rep(<<65, 65, 65, 65>>, 58)

\* s='<short pdf blob>';x='<other blob>';
T_shortThenOther == <<115, 61, 39>> \o B_shortPdfBlob \o <<39, 59, 120, 61, 39>> \o B_otherBlob \o <<39, 59>>

Absent == [present |-> FALSE, val |-> Null]

Str(v) == [present |-> TRUE, val |-> v]

\* req.body after express.json(): not an object at all, or an object whose
\* members email, secret, url are absent, the empty string or a string
Bodies ==
    {[isObject |-> FALSE, email |-> Absent, secret |-> Absent, url |-> Absent]}
    \cup [isObject : {TRUE},
          email : {Absent, Str(Null), Str(E_email)},
          secret : {Absent, Str(Null), Str(E_wrong), Str(APP_SECRET)},
          url : {Absent, Str(Null), Str(E_quiz)}]

\* a[href] and form[action] of a page without a document link, in document order
PlainDoms ==
    { [links |-> <<>>, forms |-> <<>>],
      [links |-> <<U_other, U_submit>>, forms |-> <<>>] }

\* a[href] and form[action] of a page with a document link
LinkDoms ==
    { [links |-> <<U_other, U_pdfLink>>, forms |-> <<U_formSubmit>>],
      [links |-> <<U_localLink, U_submit>>, forms |-> <<>>] }

\* script:not([src]) in document order
InlineOptions ==
    { <<>>, <<T_dataAtob>>, <<T_atob3>>, <<T_urlThenPdf>>, <<T_jsonThenPdf>>,
      <<T_junk, T_json>>, <<T_code, T_json>>, <<T_jsonSubmit>>,
      <<T_pdfBlob, T_json>>, <<T_twoBlobs>>, <<T_shortThenOther>> }

\* script[src] in document order, each with the body its URL serves
SrcOptions == { <<>>, <<T_atobPdf2>>, <<T_junk, T_atobPdf2>> }

Page(d, b, i, x) == [links |-> d.links, forms |-> d.forms, body |-> b, inline |-> i, srcs |-> x]

\* pages whose reference, if any, is in their scripts
ScriptPages == { Page(d, Null, i, x) : d \in PlainDoms, i \in InlineOptions, x \in SrcOptions }

\* pages with a document link (and scripts that hold another document)
LinkPages == { Page(d, b, <<T_dataAtob>>, <<T_atobPdf2>>) : d \in LinkDoms, b \in {Null, T_bodyPdf} }

\* pages with a URL in document.body.innerText
TextPages ==
    { Page(d, b, i, <<>>) : d \in PlainDoms, b \in {T_bodyPdf, T_bodySubmit}, i \in {<<>>, <<T_jsonSubmit>>} }

Pages == ScriptPages \cup LinkPages \cup TextPages

NoPage == Page([links |-> <<>>, forms |-> <<>>], Null, <<>>, <<>>)

\* the bytes a remote document URL serves
RemoteDocs == { D_remote }

\* ------------------------------------------------------------------------
\* The table sum (lines 339-385).  Numbers are decimal fractions counted in
\* millionths (Scale to one): the values read have at most six decimals, so
\* the sums are exact and toFixed(6) changes nothing.
\* ------------------------------------------------------------------------

\* 10^6: the answer is rounded to 6 decimals (sum.toFixed(6))
Scale == 1000000

\* s.split(c) for a one-character separator; SplitAt: the first c is at i
RECURSIVE SplitChar(_, _)
RECURSIVE SplitAt(_, _, _)
SplitChar(t, c) == SplitAt(t, c, IndexFrom(t, <<c>>, 1, FALSE))

SplitAt(t, c, i) ==
    IF i = 0 THEN <<t>>
    ELSE <<SubSeq(t, 1, i - 1)>> \o SplitChar(SubSeq(t, i + 1, Len(t)), c)

\* s.trim()
RECURSIVE TrimLeft(_)
TrimLeft(t) == IF Len(t) > 0 /\ IsSpace(t[1]) THEN TrimLeft(Tail(t)) ELSE t

RECURSIVE TrimRight(_)
TrimRight(t) ==
    IF Len(t) > 0 /\ IsSpace(t[Len(t)]) THEN TrimRight(SubSeq(t, 1, Len(t) - 1)) ELSE t

Trim(t) == TrimRight(TrimLeft(t))

\* .map(x => x.trim())
TrimAll(parts) == [i \in 1..Len(parts) |-> Trim(parts[i])]

\* page2Text.split(/\r?\n/).map(l => l.trim()).filter(Boolean): a line break
\* is \n, with the \r before it if there is one, and trim removes a lone \r
PageLines(t) == SelectSeq(TrimAll(SplitChar(t, 10)), LAMBDA l : l # <<>>)

\* last index of the run of white space starting at i
SpaceRunEnd(t, i) == RunEnd(t, i, IsSpace)

\* first index >= i where a run of two or more white space characters starts, or 0
WideGapFrom(t, i) == FirstIdx(LAMBDA k : IsSpace(t[k]) /\ IsSpace(t[k + 1]), i, Len(t) - 1)

\* line.split(/\s{2,}/); SplitColsAt: the first wide gap starts at g
RECURSIVE SplitCols(_)
RECURSIVE SplitColsAt(_, _)
SplitCols(t) == SplitColsAt(t, WideGapFrom(t, 1))

SplitColsAt(t, g) ==
    IF g = 0 THEN <<t>>
    ELSE <<SubSeq(t, 1, g - 1)>> \o SplitCols(SubSeq(t, SpaceRunEnd(t, g) + 1, Len(t)))

\* /^[A-Za-z\s\-]+$/.test(line)
IsProse(t) ==
    Len(t) > 0 /\ \A i \in 1..Len(t) : IsUpper(t[i]) \/ IsLowerAlpha(t[i]) \/ IsSpace(t[i]) \/ t[i] = 45

\* last index of the run of digits starting at i
DigitRunEnd(t, i) == RunEnd(t, i, IsDigit)

\* the number the digits t[i..e] write
RECURSIVE DigitsValue(_, _, _)
DigitsValue(t, i, e) ==
    IF e < i THEN 0 ELSE DigitsValue(t, i, e - 1) * 10 + (t[e] - 48)

\* the fraction .d1d2... written by the digits t[i..e], in millionths
RECURSIVE FractionValue(_, _, _, _)
FractionValue(t, i, e, unit) ==
    IF e < i \/ unit = 0 THEN 0
    ELSE (t[i] - 48) * unit + FractionValue(t, i + 1, e, unit \div 10)

\* the end of the fraction after the integer digits that end at e: a '.' and
\* digits, or e itself when there is none
FractionEnd(t, e) ==
    IF e + 2 <= Len(t) /\ t[e + 1] = 46 /\ IsDigit(t[e + 2]) THEN DigitRunEnd(t, e + 2) ELSE e

\* the value of the integer digits i..e and the fraction e+2..f
DecimalValue(t, i, e, f) ==
    DigitsValue(t, i, e) * Scale + (IF f > e THEN FractionValue(t, e + 2, f, Scale \div 10) ELSE 0)

DecimalTo(t, i, e) == DecimalValue(t, i, e, FractionEnd(t, e))

\* parseFloat of the text from i on, which starts with digits: the digits and,
\* when a '.' and a digit follow, the fraction
DecimalAt(t, i) == DecimalTo(t, i, DigitRunEnd(t, i))

\* a match of /-?\d+/ starts at i
NumberStartsAt(t, i) ==
    IsDigit(t[i]) \/ (t[i] = 45 /\ i < Len(t) /\ IsDigit(t[i + 1]))

NoNumber == [found |-> FALSE, val |-> 0]

\* parseFloat(m[0]) for the match that starts at i (0: no match)
NumberAt(t, i) ==
    IF i = 0 THEN NoNumber
    ELSE IF IsDigit(t[i]) THEN [found |-> TRUE, val |-> DecimalAt(t, i)]
    ELSE [found |-> TRUE, val |-> 0 - DecimalAt(t, i + 1)]

\* raw.match(/-?\d+(\.\d+)?/) and parseFloat(m[0]): [found, val]
FirstNumber(t, from) == NumberAt(t, FirstIdx(LAMBDA k : NumberStartsAt(t, k), from, Len(t)))

\* CleanCell that only trims: the signs and the commas stay in the cell
CleanCell_NoStrip(t) == Trim(t)

\* cols[valueColIndex].replace(/[,₹$€£]/g, '').trim()
CleanCell(t) == Trim(SelectSeq(t, LAMBDA ch : ch \notin {44, 8377, 36, 8364, 163}))

\* headers.findIndex(h => h.includes('value')), counted from 1 (0: none)
RECURSIVE ValueColumn(_, _)
ValueColumn(headers, i) ==
    IF i > Len(headers) THEN 0
    ELSE IF Includes(headers[i], S_value, TRUE) THEN i
    ELSE ValueColumn(headers, i + 1)

\* the number in column col of a data line, if the line has that column
CellNumber(cols, col) ==
    IF col >= 1 /\ col <= Len(cols) THEN FirstNumber(CleanCell(cols[col]), 1) ELSE NoNumber

\* if (m) sum += num
Addend(m) == IF m.found THEN m.val ELSE 0

\* the inner loop over the data lines j.. after the header
RECURSIVE SumRows(_, _, _)
\* SumRows that does not stop at a prose line: every line after the header is
\* taken as a row
SumRows_NoTableEnd(lines, j, col) ==
    IF j > Len(lines) THEN 0
    ELSE Addend(CellNumber(SplitCols(lines[j]), col)) + SumRows(lines, j + 1, col)

SumRows(lines, j, col) ==
    IF j > Len(lines) THEN 0
    ELSE IF IsProse(lines[j]) /\ Len(SplitCols(lines[j])) <= 1 THEN 0
    ELSE Addend(CellNumber(SplitCols(lines[j]), col)) + SumRows(lines, j + 1, col)

\* IsHeader without the test for two fields: any line with the word value
IsHeader_AnyValueLine(line) == Includes(line, S_value, TRUE)

\* line 352: the test for the header line
IsHeader(line) == Includes(line, S_value, TRUE) /\ Len(SplitCols(line)) >= 2

\* the outer loop: index of the first header line, or 0
RECURSIVE HeaderIndex(_, _)
HeaderIndex(lines, i) ==
    IF i > Len(lines) THEN 0
    ELSE IF IsHeader(lines[i]) THEN i
    ELSE HeaderIndex(lines, i + 1)

\* last index of the run of [,.\d] starting at i
NumRunEnd(t, i) == RunEnd(t, i, LAMBDA ch : IsDigit(ch) \/ ch = 44 \/ ch = 46)

\* the last digit at or before e
LastDigit(t, e) == LastIdx(LAMBDA k : IsDigit(t[k]), 1, e)

\* parseFloat(tok.replace(/,/g, '')) for the token whose digits are d..e
TokenValue(t, d, e) == DecimalAt(SelectSeq(SubSeq(t, d, e), LAMBDA ch : ch # 44), 1)

\* the fallback: the sum of parseFloat(tok.replace(/,/g, '')) over the matches
\* tok of /-?\d{1,3}(?:[,.\d]*\d)?/g from position `from` on.  A match starts
\* at i, at a digit or at the '-' just before one; its digits start at d and
\* end at e, the last digit of the run of [,.\d]
RECURSIVE SumAllNumbers(_, _)
RECURSIVE SumFromMatch(_, _)
RECURSIVE SumToken(_, _, _, _)
SumAllNumbers(t, from) == SumFromMatch(t, FirstIdx(LAMBDA k : NumberStartsAt(t, k), from, Len(t)))

SumFromMatch(t, i) ==
    IF i = 0 THEN 0
    ELSE IF IsDigit(t[i]) THEN SumToken(t, 1, i, LastDigit(t, NumRunEnd(t, i)))
    ELSE SumToken(t, -1, i + 1, LastDigit(t, NumRunEnd(t, i + 1)))

SumToken(t, sign, d, e) == sign * TokenValue(t, d, e) + SumAllNumbers(t, e + 1)

\* pages[1] || ''
SecondPage(pages) == IF Len(pages) >= 2 THEN pages[2] ELSE <<>>

\* allText.split('\f')[1] || ''
Page2Text(allText) == SecondPage(SplitChar(allText, 12))

\* lines 350-382 once the header is known to be line h (0: there is none)
SumBelow(page2Text, lines, h) ==
    IF h # 0
    THEN SumRows(lines, h + 1, ValueColumn(TrimAll(SplitCols(lines[h])), 1))
    ELSE SumAllNumbers(page2Text, 1)

SumLines(page2Text, lines) == SumBelow(page2Text, lines, HeaderIndex(lines, 1))

\* lines 345-384: the sum of the value column of the first table of page 2,
\* or of all numbers of page 2 when no header line is found
TableSum(page2Text) == SumLines(page2Text, PageLines(page2Text))

ComputeAnswer(allText) == TableSum(Page2Text(allText))

\* the text pdf-parse gives for a document (pages separated by \f)
\* p1\fItem          Value\nApples        100\nBananas       -50.5\nEnd of report
X_table == <<112, 49, 12, 73, 116, 101, 109, 32, 32, 32, 32, 32, 32, 32, 32, 32, 32, 86, 97, 108, 117, 101, 10, 65, 112, 112, 108, 101, 115, 32, 32, 32, 32, 32, 32, 32, 32, 49, 48, 48, 10, 66, 97, 110, 97, 110, 97, 115, 32, 32, 32, 32, 32, 32, 32, 45, 53, 48, 46, 53, 10, 69, 110, 100, 32, 111, 102, 32, 114, 101, 112, 111, 114, 116>>
\* p1\fTotal cost: 120, tax: 30
X_plain == <<112, 49, 12, 84, 111, 116, 97, 108, 32, 99, 111, 115, 116, 58, 32, 49, 50, 48, 44, 32, 116, 97, 120, 58, 32, 51, 48>>
\* only one page
X_onePage == <<111, 110, 108, 121, 32, 111, 110, 101, 32, 112, 97, 103, 101>>

PdfTexts == { X_table, X_plain, X_onePage }

\* a table with a line of numbers before its header, a row without a value
\* field, a row without a number, a two-field line of letters, and after its
\* end a second table:
\* p1\fReport 2024 totals\nNo   Item        Value  Note\n1    Apples      100    ok\n2    Pears\n3    Plums       n/a    7\nSub   total\n4    Figs        25.25  x\nEnd of table\nNo  Item  Value\n9   Kiwi  1000
X_twoTables == <<112, 49, 12, 82, 101, 112, 111, 114, 116, 32, 50, 48, 50, 52, 32, 116, 111, 116, 97, 108, 115, 10, 78, 111, 32, 32, 32, 73, 116, 101, 109, 32, 32, 32, 32, 32, 32, 32, 32, 86, 97, 108, 117, 101, 32, 32, 78, 111, 116, 101, 10, 49, 32, 32, 32, 32, 65, 112, 112, 108, 101, 115, 32, 32, 32, 32, 32, 32, 49, 48, 48, 32, 32, 32, 32, 111, 107, 10, 50, 32, 32, 32, 32, 80, 101, 97, 114, 115, 10, 51, 32, 32, 32, 32, 80, 108, 117, 109, 115, 32, 32, 32, 32, 32, 32, 32, 110, 47, 97, 32, 32, 32, 32, 55, 10, 83, 117, 98, 32, 32, 32, 116, 111, 116, 97, 108, 10, 52, 32, 32, 32, 32, 70, 105, 103, 115, 32, 32, 32, 32, 32, 32, 32, 32, 50, 53, 46, 50, 53, 32, 32, 120, 10, 69, 110, 100, 32, 111, 102, 32, 116, 97, 98, 108, 101, 10, 78, 111, 32, 32, 73, 116, 101, 109, 32, 32, 86, 97, 108, 117, 101, 10, 57, 32, 32, 32, 75, 105, 119, 105, 32, 32, 49, 48, 48, 48>>
\* a second header among the rows of the first table:
\* p1\fItem  Value\nA  10\nValue  Item\n20  B
X_headerInside == <<112, 49, 12, 73, 116, 101, 109, 32, 32, 86, 97, 108, 117, 101, 10, 65, 32, 32, 49, 48, 10, 86, 97, 108, 117, 101, 32, 32, 73, 116, 101, 109, 10, 50, 48, 32, 32, 66>>
\* a line with the word value that has one field only:
\* p1\fValue: 1,200 plus 5.5 minus -2
X_valueWord == <<112, 49, 12, 86, 97, 108, 117, 101, 58, 32, 49, 44, 50, 48, 48, 32, 112, 108, 117, 115, 32, 53, 46, 53, 32, 109, 105, 110, 117, 115, 32, 45, 50>>

\* p1\fItem  Value\nRent  <cell>
X_cell(cell) == <<112, 49, 12, 73, 116, 101, 109, 32, 32, 86, 97, 108, 117, 101, 10, 82, 101, 110, 116, 32, 32>> \o cell

\* 1,234.50
V_amount == <<49, 44, 50, 51, 52, 46, 53, 48>>

\* the rupee, dollar, euro and pound signs (UTF-16 code units)
CurrencySigns == {8377, 36, 8364, 163}

\* the table whose one value cell is 1234.50, or 1,234.50 after one of the signs
CurrencyTexts == { X_cell(<<49, 50, 51, 52, 46, 53, 48>>) } \cup { X_cell(<<c>> \o V_amount) : c \in CurrencySigns }

\* the texts the table sum is checked on
SumTexts == { X_table, X_plain, X_onePage, X_twoTables, X_headerInside, X_valueWord } \cup CurrencyTexts

\* ------------------------------------------------------------------------
\* State
\* ------------------------------------------------------------------------
Jobs == {"j1", "j2"}

\* the values Date.now() takes are 0..MaxNow
MaxNow == 1

VARIABLES
    job,    \* per request: the response and the locals of its background job
    fs,     \* the files of TEMP_DIR: path -> [bytes, by (the job that wrote it)]
    now     \* Date.now()

vars == <<job, fs, now>>

NoAnswer == [num |-> FALSE, n |-> 0, s |-> Null]

\* answer: answer (a number, in millionths)
Numeric(n) == [num |-> TRUE, n |-> n, s |-> Null]

\* answer: "demo-answer-from-server"
Placeholder == [num |-> FALSE, n |-> 0, s |-> S_demoAnswer]

InitJob ==
    [ pc |-> "idle",            \* the await the job is suspended at
      req |-> [isObject |-> FALSE, email |-> Absent, secret |-> Absent, url |-> Absent],
      resp |-> <<>>,            \* the statuses sent, in order
      timer |-> "none",         \* jobTimer: none, armed, fired, cleared
      firedAt |-> "never",      \* where the job was when the timer fired (see FiredAt)
      browser |-> "none",       \* browser: none (undefined), open, closed
      page |-> NoPage,          \* the document the page shows once loaded
      submitUrl |-> Null,
      pdfUrl |-> Null,
      combinedText |-> Null,
      idx |-> 0,                \* position of the loop over scriptSrcs
      failed |-> {},            \* the positions whose fetch failed
      scan |-> [by |-> "none", ran |-> <<>>, tried |-> 0],
      pdfBuffer |-> <<>>,
      bodyRead |-> FALSE,       \* the body text was read and appended to combinedText
      allText |-> Null,         \* data.text of the parsed document
      readFrom |-> [path |-> Null, by |-> "nobody"],
      answer |-> NoAnswer,
      posts |-> <<>>,           \* the bodies POSTed to the submit URL
      abort |-> "none",         \* the failed step that ended the job early
      log |-> <<>> ]            \* the operations issued, in order

Init ==
    /\ job = [j \in Jobs |-> InitJob]
    /\ fs = [q \in {} |-> 0]
    /\ now = 0

\* fs.writeFileSync(path, bytes) by job j
WriteFile(f, path, bytes, j) ==
    [q \in DOMAIN f \cup {path} |-> IF q = path THEN [bytes |-> bytes, by |-> j] ELSE f[q]]

\* clearTimeout(jobTimer)
Cleared(t) == IF t = "armed" THEN "cleared" ELSE t

\* !x for a member of the request body
Falsy(m) == ~m.present \/ m.val = Null

\* validatePayload(body)
validatePayload(body) ==
    /\ body.isObject
    /\ ~Falsy(body.email) /\ ~Falsy(body.secret) /\ ~Falsy(body.url)

\* WebhookStatus with the secret compared before the payload is validated
WebhookStatus_SecretFirst(body) ==
    IF body.secret.val # APP_SECRET THEN 403
    ELSE IF ~validatePayload(body) THEN 400
    ELSE 200

\* lines 58-62: the status the handler answers with
WebhookStatus(body) ==
    IF ~validatePayload(body) THEN 400
    ELSE IF body.secret.val # APP_SECRET THEN 403
    ELSE 200

\* AcceptLog with the job started before the response is sent
AcceptLog_JobFirst == <<"launch", "respond200">>

\* lines 62-74 for an accepted request: res.status(200).json(...), then the
\* job starts and runs to its first await, puppeteer.launch
AcceptLog == <<"respond200", "launch">>

\* Catch without `if (browser) await browser.close()`
Catch_NoClose(jb) == [jb EXCEPT !.timer = Cleared(@), !.pc = "done", !.log = Append(@, "catch")]

\* lines 412-416: catch (err)
Catch(jb) ==
    [jb EXCEPT !.timer = Cleared(@),
               !.pc = IF jb.browser = "none" THEN "done" ELSE "closeCatch",
               !.log = Append(@, "catch")]

\* the body POSTed to the submit URL
Submission(jb, to, ans) ==
    [to |-> to, email |-> jb.req.email.val, secret |-> jb.req.secret.val,
     url |-> jb.req.url.val, answer |-> ans]

\* the job and the files after a synchronous stretch of the job
Resolved(jb, f) == [jb |-> jb, fs |-> f]

\* DemoOrStop without the demo submission
DemoOrStop_NeverPosts(jb) == [jb EXCEPT !.pc = "closeNoPdf", !.log = Append(@, "close")]

\* lines 275-308: no pdfUrl; the demo answer is posted if a submit URL is
\* known, else the job stops
DemoOrStop(jb) ==
    IF jb.submitUrl # Null
    THEN [jb EXCEPT !.pc = "demoPost",
                    !.posts = Append(@, Submission(jb, jb.submitUrl, Placeholder)),
                    !.log = Append(@, "post")]
    ELSE [jb EXCEPT !.pc = "closeNoPdf", !.log = Append(@, "close")]

\* lines 314-338 for a file:// reference: fs.readFileSync(localPath), which
\* throws when there is no such file, the copy quiz_saved_<now>.pdf, pdfParse
ReadLocal(j, jb, f, localPath, t) ==
    IF localPath \in DOMAIN f
    THEN Resolved([jb EXCEPT !.pdfBuffer = f[localPath].bytes,
                             !.readFrom = [path |-> localPath, by |-> f[localPath].by],
                             !.pc = "parse",
                             !.log = @ \o <<"readFile", "pdfParse">>],
                  WriteFile(f, TempPdfName(S_quizSaved, t), f[localPath].bytes, j))
    ELSE Resolved(Catch([jb EXCEPT !.log = Append(@, "readFile")]), f)

\* lines 273-327, from `if (!pdfUrl)` to the next await
FetchOrRead(j, jb, f, t) ==
    IF jb.pdfUrl = Null THEN Resolved(DemoOrStop(jb), f)
    ELSE IF StartsWith(jb.pdfUrl, S_fileScheme)
    THEN ReadLocal(j, jb, f, SubSeq(jb.pdfUrl, Len(S_fileScheme) + 1, Len(jb.pdfUrl)), t)
    ELSE Resolved([jb EXCEPT !.pc = "download", !.log = Append(@, "download")], f)

\* the searches ended with reference ref and submit URL sub: the file the
\* winning scan wrote, then lines 273-327
AfterResolve(j, jb, ref, sub, f, t) ==
    FetchOrRead(j, [jb EXCEPT !.pdfUrl = ref.pdfUrl, !.submitUrl = sub],
                IF ref.local THEN WriteFile(f, ref.path, ref.bytes, j) ELSE f, t)

\* ------------------------------------------------------------------------
\* Actions: one per resumption of the handler or of the background job
\* ------------------------------------------------------------------------

\* job j becomes jb
Becomes(j, jb) == job' = [job EXCEPT ![j] = jb]

\* job j and the files become those of r
Adopt(j, r) == Becomes(j, r.jb) /\ fs' = r.fs

\* app.post('/webhook') runs for request j with body `body`
Request(j, bodies) ==
    /\ job[j].pc = "idle"
    /\ \E body \in bodies :
          Becomes(j, IF WebhookStatus(body) = 200
                     THEN [job[j] EXCEPT !.req = body, !.resp = Append(@, 200), !.timer = "armed",
                                         !.pc = "launch", !.log = AcceptLog]
                     ELSE [job[j] EXCEPT !.req = body, !.resp = Append(@, WebhookStatus(body)),
                                         !.pc = "rejected"])
    /\ UNCHANGED <<fs, now>>

\* puppeteer.launch settles; then browser.newPage() is issued
LaunchDone(j) ==
    /\ job[j].pc = "launch"
    /\ \E ok \in BOOLEAN :
          Becomes(j, IF ok THEN [job[j] EXCEPT !.browser = "open", !.pc = "newPage",
                                               !.log = Append(@, "newPage")]
                     ELSE Catch(job[j]))
    /\ UNCHANGED <<fs, now>>

\* a call on the browser or the page of job j can succeed only while the
\* browser is open
CanSucceed(j, ok) == ok => job[j].browser = "open"

\* browser.newPage() settles; then page.goto(payload.url) is issued
NewPageDone(j) ==
    /\ job[j].pc = "newPage"
    /\ \E ok \in BOOLEAN :
          /\ CanSucceed(j, ok)
          /\ Becomes(j, IF ok THEN [job[j] EXCEPT !.pc = "goto", !.log = Append(@, "goto")]
                        ELSE Catch(job[j]))
    /\ UNCHANGED <<fs, now>>

\* page.goto settles (the page shows one of `pages`); then the submit URL
\* search is issued
GotoDone(j, pages) ==
    /\ job[j].pc = "goto"
    /\ \/ \E pg \in pages :
             /\ CanSucceed(j, TRUE)
             /\ Becomes(j, [job[j] EXCEPT !.page = pg, !.pc = "evalSubmit",
                                          !.log = Append(@, "evalSubmit")])
       \/ Becomes(j, Catch([job[j] EXCEPT !.abort = "goto"]))
    /\ UNCHANGED <<fs, now>>

\* the submit URL search settles; then the direct pdf search is issued
EvalSubmitDone(j) ==
    /\ job[j].pc = "evalSubmit"
    /\ \E ok \in BOOLEAN :
          /\ CanSucceed(j, ok)
          /\ Becomes(j, IF ok THEN [job[j] EXCEPT !.submitUrl = FindSubmitUrl(job[j].page),
                                                  !.pc = "evalPdf", !.log = Append(@, "evalPdf")]
                        ELSE Catch(job[j]))
    /\ UNCHANGED <<fs, now>>

\* what the direct search marks in scan
DirectScan(url) == [by |-> IF url # Null THEN "direct" ELSE "none", ran |-> <<"direct">>, tried |-> 0]

\* AfterDirect without the `if (!pdfUrl)` around the script harvesting
AfterDirect_AlwaysHarvest(j, url) ==
    /\ Becomes(j, [job[j] EXCEPT !.scan = DirectScan(url), !.pdfUrl = url, !.pc = "evalScripts",
                                 !.log = Append(@, "evalScripts")])
    /\ fs' = fs

\* lines 100-106 for the url the direct search gave: with one the job goes on
\* to the document, without one it asks the page for its scripts
AfterDirect(j, url) ==
    IF url # Null
    THEN Adopt(j, AfterResolve(j, [job[j] EXCEPT !.scan = DirectScan(url)], RemoteRef(url),
                               job[j].submitUrl, fs, now))
    ELSE /\ Becomes(j, [job[j] EXCEPT !.scan = DirectScan(url), !.pc = "evalScripts",
                                      !.log = Append(@, "evalScripts")])
         /\ fs' = fs

\* the direct pdf search settles
EvalPdfDone(j) ==
    /\ job[j].pc = "evalPdf"
    /\ \E ok \in BOOLEAN :
          /\ CanSucceed(j, ok)
          /\ IF ok THEN AfterDirect(j, DirectSearch(job[j].page))
             ELSE Becomes(j, Catch(job[j])) /\ fs' = fs
    /\ UNCHANGED now

\* the scripts of the page arrive; then page.content() is issued (inside try)
EvalScriptsDone(j) ==
    /\ job[j].pc = "evalScripts"
    /\ \E ok \in BOOLEAN :
          /\ CanSucceed(j, ok)
          /\ Becomes(j, IF ok THEN [job[j] EXCEPT !.pc = "content", !.log = Append(@, "content")]
                        ELSE Catch(job[j]))
    /\ UNCHANGED <<fs, now>>

\* what comes after one pass of the loop over scriptSrcs: the next fetch, or
\* the body text
NextFetch(jb) ==
    IF jb.idx < Len(jb.page.srcs)
    THEN [jb EXCEPT !.idx = @ + 1, !.pc = "fetchScript", !.log = Append(@, "fetchScript")]
    ELSE [jb EXCEPT !.pc = "evalBody", !.log = Append(@, "evalBody")]

\* page.content() settles, well or not (its failure is caught and ignored);
\* combinedText starts as the inline scripts and the first external script
\* is fetched
ContentDone(j) ==
    /\ job[j].pc = "content"
    /\ \E ok \in BOOLEAN :
          /\ CanSucceed(j, ok)
          /\ Becomes(j, NextFetch([job[j] EXCEPT !.combinedText = Join(job[j].page.inline, S_sep)]))
    /\ UNCHANGED <<fs, now>>

\* Fetched without the test of resp.ok: the body of a failed response is
\* appended too
Fetched_IgnoresStatus(jb, outcome) ==
    IF outcome = "throw" THEN [jb EXCEPT !.failed = @ \cup {jb.idx}]
    ELSE [jb EXCEPT !.combinedText = @ \o S_sep \o jb.page.srcs[jb.idx],
                    !.failed = IF outcome = "ok" THEN @ ELSE @ \cup {jb.idx}]

\* lines 132-140 for one external script: its text is appended when the
\* response is ok; a failed status or an exception is only logged
Fetched(jb, outcome) ==
    IF outcome = "ok" THEN [jb EXCEPT !.combinedText = @ \o S_sep \o jb.page.srcs[jb.idx]]
    ELSE [jb EXCEPT !.failed = @ \cup {jb.idx}]

\* the fetch of external script idx settles
FetchScriptDone(j) ==
    /\ job[j].pc = "fetchScript"
    /\ \E outcome \in {"ok", "notOk", "throw"} : Becomes(j, NextFetch(Fetched(job[j], outcome)))
    /\ UNCHANGED <<fs, now>>

\* lines 159-327 for the job jb, its combined text complete, and the outcome
\* sc of the scans
AfterScan(j, jb, sc) ==
    Adopt(j, AfterResolve(j, [jb EXCEPT !.scan = [by |-> sc.by, ran |-> <<"direct">> \o sc.ran,
                                                  tried |-> sc.ref.tried]],
                          sc.ref, sc.submitUrl, fs, now))

\* the scans run over the final combined text
ScanText(j, jb) == AfterScan(j, jb, ScriptScan(jb.combinedText, jb.submitUrl, now))

\* BodyRead that puts the body text before the scripts
BodyRead_BodyFirst(jb, ok) ==
    IF ok THEN [jb EXCEPT !.combinedText = jb.page.body \o S_sep \o @, !.bodyRead = TRUE] ELSE jb

\* lines 145-148: the body text is appended; if reading it throws, the
\* exception is ignored and combinedText stays as it is
BodyRead(jb, ok) ==
    IF ok THEN [jb EXCEPT !.combinedText = @ \o S_sep \o jb.page.body, !.bodyRead = TRUE] ELSE jb

\* the body text arrives (or not: ignored); the scans run over combinedText
\* and the job goes on to the document or to one of its early exits
EvalBodyDone(j) ==
    /\ job[j].pc = "evalBody"
    /\ \E ok \in BOOLEAN :
          /\ CanSucceed(j, ok)
          /\ ScanText(j, BodyRead(job[j], ok))
    /\ UNCHANGED now

\* the download of the document settles: with the bytes (saved as
\* quiz_saved_<now>.pdf, then parsed), with a status that is not ok, or not
\* at all
DownloadDone(j) ==
    /\ job[j].pc = "download"
    /\ \/ \E doc \in RemoteDocs :
             /\ Becomes(j, [job[j] EXCEPT !.pdfBuffer = doc, !.pc = "parse",
                                          !.log = Append(@, "pdfParse")])
             /\ fs' = WriteFile(fs, TempPdfName(S_quizSaved, now), doc, j)
       \/ /\ Becomes(j, [job[j] EXCEPT !.abort = "download", !.pc = "closeDownload",
                                       !.log = Append(@, "close")])
          /\ fs' = fs
       \/ /\ Becomes(j, Catch(job[j]))
          /\ fs' = fs
    /\ UNCHANGED now

\* lines 387-409 after the answer is computed
AfterAnswer(jb, ans) ==
    IF jb.submitUrl = Null
    THEN [jb EXCEPT !.answer = ans, !.timer = Cleared(@), !.pc = "closeEnd", !.log = Append(@, "close")]
    ELSE [jb EXCEPT !.answer = ans, !.pc = "post",
                    !.posts = Append(@, Submission(jb, jb.submitUrl, ans)),
                    !.log = Append(@, "post")]

\* ParseDone with a sum that is kept between the jobs: each job adds to what
\* the job before it left
ParseDone_SharedSum(j, texts) ==
    /\ job[j].pc = "parse"
    /\ \/ \E allText \in texts : \E k \in Jobs \ {j} :
             Becomes(j, AfterAnswer([job[j] EXCEPT !.allText = allText],
                                    Numeric(job[k].answer.n + ComputeAnswer(allText))))
       \/ Becomes(j, Catch(job[j]))
    /\ UNCHANGED <<fs, now>>

\* pdfParse settles: with the text of the document the table is summed and
\* the answer is posted (or, without a submit URL, the job ends)
ParseDone(j, texts) ==
    /\ job[j].pc = "parse"
    /\ \/ \E allText \in texts :
             Becomes(j, AfterAnswer([job[j] EXCEPT !.allText = allText], Numeric(ComputeAnswer(allText))))
       \/ Becomes(j, Catch(job[j]))
    /\ UNCHANGED <<fs, now>>

\* what a POST that settled leaves in the log: a failure is caught and logged
\* (console.error), then the browser is closed
PostLog(ok) == IF ok THEN <<"close">> ELSE <<"postError", "close">>

\* Posted with a second attempt after a failed POST
Posted_Retries(jb, ok) ==
    IF ~ok /\ Len(jb.posts) < 2
    THEN [jb EXCEPT !.posts = Append(@, jb.posts[1]), !.log = @ \o <<"postError", "post">>]
    ELSE [jb EXCEPT !.timer = Cleared(@), !.pc = "closeEnd", !.log = @ \o PostLog(ok)]

\* lines 400-409: the POST of the answer settled; clearTimeout, browser.close()
Posted(jb, ok) == [jb EXCEPT !.timer = Cleared(@), !.pc = "closeEnd", !.log = @ \o PostLog(ok)]

\* the POST of the answer settles, well or not
PostDone(j) ==
    /\ job[j].pc = "post"
    /\ \E ok \in BOOLEAN : Becomes(j, Posted(job[j], ok))
    /\ UNCHANGED <<fs, now>>

\* lines 292-297: the POST of the demo answer settled; browser.close()
DemoPosted(jb, ok) == [jb EXCEPT !.pc = "closeDemo", !.log = @ \o PostLog(ok)]

\* the POST of the demo answer settles, well or not
DemoPostDone(j) ==
    /\ job[j].pc = "demoPost"
    /\ \E ok \in BOOLEAN : Becomes(j, DemoPosted(job[j], ok))
    /\ UNCHANGED <<fs, now>>

ClosePcs == {"closeDemo", "closeNoPdf", "closeDownload", "closeEnd", "closeCatch"}

\* Closed of an early exit that returns without clearTimeout(jobTimer)
Closed_NoClear(jb) == [jb EXCEPT !.browser = "closed", !.pc = "done"]

\* the job after browser.close() settled: it ends; on the early exits
\* clearTimeout(jobTimer) comes after the close
Closed(jb) ==
    [jb EXCEPT !.browser = "closed",
               !.timer = IF jb.pc \in {"closeDemo", "closeNoPdf", "closeDownload"} THEN Cleared(@) ELSE @,
               !.pc = "done"]

CloseDone(j) ==
    /\ job[j].pc \in ClosePcs
    /\ Becomes(j, Closed(job[j]))
    /\ UNCHANGED <<fs, now>>

\* where the timer fired: at the download or the parse, which come after the
\* last operation on the browser, or elsewhere
FiredAt(pc) == IF pc \in {"download", "parse"} THEN pc ELSE "elsewhere"

\* TimerEffect of a deadline that cancels the job
TimerEffect_Cancels(jb) ==
    [jb EXCEPT !.timer = "fired", !.firedAt = FiredAt(jb.pc), !.pc = "done",
               !.browser = IF @ = "open" THEN "closed" ELSE @]

\* the jobTimer callback: closes the browser if there is one
TimerEffect(jb) ==
    [jb EXCEPT !.timer = "fired", !.firedAt = FiredAt(jb.pc),
               !.browser = IF @ = "open" THEN "closed" ELSE @]

Timeout(j) ==
    /\ job[j].timer = "armed"
    /\ Becomes(j, TimerEffect(job[j]))
    /\ UNCHANGED <<fs, now>>

\* time passes
Tick ==
    /\ now < MaxNow
    /\ now' = now + 1
    /\ UNCHANGED <<job, fs>>

JobStep(j, bodies, pages, texts) ==
    \/ Request(j, bodies)
    \/ LaunchDone(j)
    \/ NewPageDone(j)
    \/ GotoDone(j, pages)
    \/ EvalSubmitDone(j)
    \/ EvalPdfDone(j)
    \/ EvalScriptsDone(j)
    \/ ContentDone(j)
    \/ FetchScriptDone(j)
    \/ EvalBodyDone(j)
    \/ DownloadDone(j)
    \/ ParseDone(j, texts)
    \/ PostDone(j)
    \/ DemoPostDone(j)
    \/ CloseDone(j)
    \/ Timeout(j)

\* one request at a time
Next == Tick \/ JobStep("j1", Bodies, Pages, PdfTexts)

Spec == Init /\ [][Next]_vars

\* ------------------------------------------------------------------------
\* Two concurrent requests
\* ------------------------------------------------------------------------

\* an accepted request and one with a wrong secret
ConcBodies ==
    { [isObject |-> TRUE, email |-> Str(E_email), secret |-> Str(APP_SECRET), url |-> Str(E_quiz)],
      [isObject |-> TRUE, email |-> Str(E_email), secret |-> Str(E_wrong), url |-> Str(E_quiz)] }

\* a page with an embedded document, a page that links to a temporary file
\* of the server, a page whose external script holds the URL of the document
\* (and which has no document when the fetch of the script fails)
ConcPages ==
    { Page([links |-> <<U_other, U_submit>>, forms |-> <<>>], Null, <<T_dataAtob>>, <<>>),
      Page([links |-> <<U_localLink, U_submit>>, forms |-> <<>>], Null, <<>>, <<>>),
      Page([links |-> <<>>, forms |-> <<U_formSubmit>>], Null, <<>>, <<T_urlThenPdf>>) }

ConcTexts == { X_table }

\* the jobs of two requests interleave at their awaits
NextConc == Tick \/ \E j \in Jobs : JobStep(j, ConcBodies, ConcPages, ConcTexts)

SpecConc == Init /\ [][NextConc]_vars

\* ------------------------------------------------------------------------
\* The table sum on its own: accepted requests for a page with a direct
\* link to the document, and the texts of SumTexts
\* ------------------------------------------------------------------------
SumBodies == { [isObject |-> TRUE, email |-> Str(E_email), secret |-> Str(APP_SECRET), url |-> Str(E_quiz)] }

SumPages == { Page([links |-> <<U_other, U_pdfLink>>, forms |-> <<U_formSubmit>>], Null, <<>>, <<>>) }

\* the steps of a job whose page has a direct link: its scripts are never
\* asked for and it has no demo submission
LinkedStep(j, bodies, pages, texts) ==
    \/ Request(j, bodies)
    \/ LaunchDone(j)
    \/ NewPageDone(j)
    \/ GotoDone(j, pages)
    \/ EvalSubmitDone(j)
    \/ EvalPdfDone(j)
    \/ DownloadDone(j)
    \/ ParseDone(j, texts)
    \/ PostDone(j)
    \/ CloseDone(j)
    \/ Timeout(j)

\* one request, each text
NextSum == Tick \/ LinkedStep("j1", SumBodies, SumPages, SumTexts)

SpecSum == Init /\ [][NextSum]_vars

\* two texts, summed by two jobs in any order
TwiceTexts == { X_table, X_plain }

NextTwice == Tick \/ \E j \in Jobs : LinkedStep(j, SumBodies, SumPages, TwiceTexts)

SpecTwice == Init /\ [][NextTwice]_vars

\* ------------------------------------------------------------------------
\* Properties
\* ------------------------------------------------------------------------

\* e is in the log
Has(log, e) == \E i \in 1..Len(log) : log[i] = e

\* how many times e is in the log
Count(log, e) == Cardinality({i \in 1..Len(log) : log[i] = e})

Members == {"email", "secret", "url"}

\* the status claim C1 asks for, a member being missing when it is absent
StatusIfAbsentIsMissing(body) ==
    IF ~body.isObject \/ \E m \in Members : ~body[m].present THEN 400
    ELSE IF body.secret.val # APP_SECRET THEN 403
    ELSE 200

\* the status when a member is missing if it is absent or falsy (the empty
\* string here)
StatusIfFalsyIsMissing(body) ==
    IF ~body.isObject \/ \E m \in Members : ~body[m].present \/ body[m].val = Null THEN 400
    ELSE IF body.secret.val # APP_SECRET THEN 403
    ELSE 200

\* C1 as stated: every request is answered exactly once, with 400 if the body
\* is not an object or one of email, secret, url is absent, else with 403 if
\* the secret differs from the configured one, else with 200.
C1_StatusAbsent ==
    \A j \in Jobs :
        /\ Len(job[j].resp) <= 1
        /\ job[j].pc # "idle" => job[j].resp = <<StatusIfAbsentIsMissing(job[j].req)>>

\* C1 amended: every request is answered exactly once, with 400 if the body is
\* not an object or one of email, secret, url is absent or falsy (such as the
\* empty string), else with 403 if the secret differs from the configured
\* one, else with 200; the 400 test comes first.
C1_StatusFalsy ==
    \A j \in Jobs :
        /\ Len(job[j].resp) <= 1
        /\ job[j].pc # "idle" => job[j].resp = <<StatusIfFalsyIsMissing(job[j].req)>>

\* a request without email and with a wrong secret was answered 400
C1_Witness ==
    /\ job["j1"].resp = <<400>>
    /\ job["j1"].req.isObject
    /\ ~job["j1"].req.email.present
    /\ job["j1"].req.secret = Str(E_wrong)

\* C2: the 200 response of an accepted request comes before every step of its
\* job, and a request answered 400 or 403 has no job: nothing is launched,
\* no timer is set, nothing is posted.
C2_AckBeforeJob ==
    \A j \in Jobs :
        /\ job[j].log # <<>> => job[j].log[1] = "respond200" /\ job[j].resp = <<200>>
        /\ job[j].resp # <<200>> =>
              /\ job[j].log = <<>>
              /\ job[j].browser = "none"
              /\ job[j].timer = "none"
              /\ job[j].posts = <<>>
              /\ job[j].pc \in {"idle", "rejected"}

\* an accepted request whose job ran to the end and posted an answer
C2_Witness ==
    /\ job["j1"].pc = "done"
    /\ job["j1"].resp = <<200>>
    /\ Len(job["j1"].posts) = 1
    /\ Len(job["j1"].log) > 2

StrategyOrder == <<"direct", "dataUri", "atob", "longBlob", "json">>

\* the strategy, run on its own, yields a reference
Yields(name, pg, txt, t) ==
    CASE name = "direct" -> DirectSearch(pg) # Null
      [] name = "dataUri" -> DataUriScan(txt, t).found
      [] name = "atob" -> AtobScan(txt, t).found
      [] name = "longBlob" -> LongBlobScan(txt, t).found
      [] name = "json" -> JsonScan(txt).found

\* the reference the strategy yields, run on its own
YieldOf(name, pg, txt, t) ==
    CASE name = "direct" -> DirectSearch(pg)
      [] name = "dataUri" -> DataUriScan(txt, t).pdfUrl
      [] name = "atob" -> AtobScan(txt, t).pdfUrl
      [] name = "longBlob" -> LongBlobScan(txt, t).pdfUrl
      [] name = "json" -> JsonScan(txt).pdfUrl

\* the strategies run are the first n of the order, the first n - 1 yield
\* nothing, and the reference is the one of strategy n (none if that one
\* yields nothing either, which happens only after the direct search, before
\* the scripts are harvested, and after the last strategy)
RanInOrder(s, pdfUrl, pg, txt, t) ==
    \E n \in 1..Len(StrategyOrder) :
        /\ s.ran = SubSeq(StrategyOrder, 1, n)
        /\ \A k \in 1..(n - 1) : ~Yields(StrategyOrder[k], pg, txt, t)
        /\ IF Yields(StrategyOrder[n], pg, txt, t)
           THEN s.by = StrategyOrder[n] /\ pdfUrl = YieldOf(StrategyOrder[n], pg, txt, t)
           ELSE s.by = "none" /\ pdfUrl = Null /\ n \in {1, Len(StrategyOrder)}

\* C3: the strategies run in the order direct, data URI, decode call, long
\* blob, structure; none runs after one that yields a reference, and the
\* reference the job uses is that of the first strategy in the order that
\* yields one.
C3_FirstStrategyWins ==
    [][\A j \in Jobs :
          job'[j].scan # job[j].scan =>
              RanInOrder(job'[j].scan, job'[j].pdfUrl, job'[j].page, job'[j].combinedText, now)]_vars

\* a job whose reference came from the last strategy, after the four before
\* it had run
C3_Witness ==
    /\ job["j1"].scan.by = "json"
    /\ job["j1"].scan.ran = StrategyOrder
    /\ job["j1"].pdfUrl # Null

\* the page has a direct document link or a document URL in its text
HasDirectReference(pg) == (\E i \in 1..Len(pg.links) : IsPdfHref(pg.links[i])) \/ MatchPdfUrl(pg.body) # Null

\* C4: for a page with a direct .pdf link (or a .pdf URL in its text) the
\* direct search gives exactly that URL (the first link, else the first URL
\* of the text) and the scripts are not harvested: no script is asked for or
\* fetched and no combined text is built.
C4_DirectSkipsHarvest ==
    \A j \in Jobs :
        (job[j].scan.ran # <<>> /\ HasDirectReference(job[j].page)) =>
            /\ job[j].scan = [by |-> "direct", ran |-> <<"direct">>, tried |-> 0]
            /\ job[j].pdfUrl = OrStr(FirstWith(job[j].page.links, IsPdfHref, 1), MatchPdfUrl(job[j].page.body))
            /\ job[j].combinedText = Null
            /\ job[j].idx = 0
            /\ ~Has(job[j].log, "evalScripts")
            /\ ~Has(job[j].log, "content")
            /\ ~Has(job[j].log, "fetchScript")
            /\ ~Has(job[j].log, "evalBody")

\* a page with a document link and scripts that hold other documents: the
\* job downloads the linked document
C4_Witness ==
    /\ job["j1"].pc = "download"
    /\ job["j1"].pdfUrl = U_pdfLink
    /\ job["j1"].page.inline # <<>>
    /\ job["j1"].page.srcs # <<>>

\* the decoded bytes of literal i
LiteralBytes(lits, i) == Base64Decode(StripSpace(lits[i]))

\* the first literal that decodes to %PDF... (0: none)
FirstPdfLiteral(lits) == FirstIdx(LAMBDA i : HasPdfMagic(LiteralBytes(lits, i)), 1, Len(lits))

\* literal i gives a reference: %PDF bytes, or text with a document URL
GivesReference(lits, i) ==
    HasPdfMagic(LiteralBytes(lits, i)) \/ UrlInDecodedText(BufToString(LiteralBytes(lits, i))) # Null

\* the first literal that gives a reference (0: none)
FirstReference(lits) == FirstIdx(LAMBDA i : GivesReference(lits, i), 1, Len(lits))

\* the decode-call scan has just run in job j
AtobJustRan(j) == job'[j].scan # job[j].scan /\ Len(job'[j].scan.ran) >= 3

\* the job took the bytes of literal k, and decoded no literal after it
TookBytesOf(jb, lits, k) ==
    /\ jb.scan.by = "atob"
    /\ jb.scan.tried = k
    /\ jb.pdfBuffer = LiteralBytes(lits, k)

\* the outcome C5 asks for: the bytes of the first %PDF literal, if there is one
PdfLiteralWins(jb, lits, k) == k # 0 => TookBytesOf(jb, lits, k)

\* C5 as stated: when the decode-call scan runs on a combined text in which a
\* literal decodes to bytes that begin with %PDF, the job gets the decoded
\* bytes of the first such literal and decodes no literal after it.
C5_FirstPdfLiteral ==
    [][\A j \in Jobs :
          AtobJustRan(j) =>
              PdfLiteralWins(job'[j], atobMatches(job'[j].combinedText),
                             FirstPdfLiteral(atobMatches(job'[j].combinedText)))]_vars

\* the outcome of the scan when the first literal that gives a reference is k
FirstReferenceWins(jb, lits, k) ==
    IF k = 0 THEN jb.scan.by # "atob" /\ jb.scan.tried = Len(lits)
    ELSE IF HasPdfMagic(LiteralBytes(lits, k)) THEN TookBytesOf(jb, lits, k)
    ELSE /\ jb.scan.by = "atob"
         /\ jb.scan.tried = k
         /\ jb.pdfUrl = UrlInDecodedText(BufToString(LiteralBytes(lits, k)))

\* C5 amended: the decode-call scan tries the literals in text order and the
\* first literal that gives a reference wins, by decoded bytes that begin with
\* %PDF (the job gets those bytes) or by a document URL or url/file member in
\* its decoded text (the job gets that URL); no literal after it is decoded.
C5_FirstReferenceLiteral ==
    [][\A j \in Jobs :
          AtobJustRan(j) =>
              FirstReferenceWins(job'[j], atobMatches(job'[j].combinedText),
                                 FirstReference(atobMatches(job'[j].combinedText)))]_vars

\* of three literals the first decodes to text without a reference and the
\* second to %PDF-1: the job parses the bytes of the second
C5_Witness ==
    /\ job["j1"].scan.by = "atob"
    /\ job["j1"].scan.tried = 2
    /\ Len(atobMatches(job["j1"].combinedText)) = 3
    /\ job["j1"].pdfBuffer = <<37, 80, 68, 70, 45, 49>>

\* C6: a job that launched a browser has closed it when it ends, on every way
\* out (after the answer, without a document, after a failed download, after
\* an exception).
C6_BrowserClosed == \A j \in Jobs : job[j].pc = "done" => job[j].browser # "open"

\* a job ended after a download that was not ok, its browser closed
C6_Witness ==
    /\ job["j1"].pc = "done"
    /\ job["j1"].abort = "download"
    /\ job["j1"].browser = "closed"

\* C7: a job parses only bytes it decoded or downloaded itself: it never reads
\* a temporary file another job wrote.
C7_OwnBytesOnly == \A j \in Jobs : job[j].readFrom.by \in {"nobody", j}

\* the external scripts from position k on whose fetch did not fail, each
\* after the separator
RECURSIVE KeptScripts(_, _, _)
KeptScripts(srcs, failed, k) ==
    IF k > Len(srcs) THEN <<>>
    ELSE (IF k \in failed THEN <<>> ELSE S_sep \o srcs[k]) \o KeptScripts(srcs, failed, k + 1)

\* the combined text of the inline scripts and the fetched scripts
Harvest(jb) == Join(jb.page.inline, S_sep) \o KeptScripts(jb.page.srcs, jb.failed, 1)

\* C8: a failed script fetch costs the job only that script: all scripts are
\* still fetched, the combined text is the inline scripts and the scripts
\* fetched (and the body text), and the scans run on it.  A failed page load
\* and a download that is not ok end the job: nothing is summed or posted.
C8_FetchFailures ==
    \A j \in Jobs :
        /\ job[j].pc = "fetchScript" => ~Has(job[j].log, "catch")
        /\ (Has(job[j].log, "evalBody") /\ job[j].pc # "evalBody") =>
              /\ job[j].idx = Len(job[j].page.srcs)
              /\ Count(job[j].log, "fetchScript") = Len(job[j].page.srcs)
              /\ job[j].combinedText \in {Harvest(job[j]), Harvest(job[j]) \o S_sep \o job[j].page.body}
              /\ Len(job[j].scan.ran) >= 2
        /\ job[j].abort # "none" =>
              /\ job[j].answer = NoAnswer
              /\ job[j].posts = <<>>
              /\ ~Has(job[j].log, "pdfParse")
              /\ ~Has(job[j].log, "post")
              /\ job[j].pc \in ClosePcs \cup {"done"}

\* the first of two external scripts failed, the second was fetched and the
\* decode-call scan found the document in it
C8_Witness ==
    /\ job["j1"].failed = {1}
    /\ Len(job["j1"].page.srcs) = 2
    /\ job["j1"].scan.by = "atob"
    /\ job["j1"].pc = "done"

\* all strategies ran and none gave a reference
NotFound(jb) == jb.scan.ran = StrategyOrder /\ jb.scan.by = "none"

\* C9: a job without a reference ends without an exception: with a submit URL
\* it posts one submission, whose answer is the placeholder, without one it
\* posts nothing; it downloads and parses nothing.  A numeric answer is posted
\* only by a job that resolved a reference and got the document.
C9_NotFound ==
    \A j \in Jobs :
        /\ NotFound(job[j]) =>
              /\ job[j].posts = IF job[j].submitUrl # Null
                                THEN <<Submission(job[j], job[j].submitUrl, Placeholder)>>
                                ELSE <<>>
              /\ job[j].answer = NoAnswer
              /\ job[j].pdfBuffer = <<>>
              /\ ~Has(job[j].log, "catch")
              /\ ~Has(job[j].log, "download")
              /\ ~Has(job[j].log, "readFile")
              /\ ~Has(job[j].log, "pdfParse")
        /\ \A i \in 1..Len(job[j].posts) :
              job[j].posts[i].answer.num =>
                  /\ job[j].scan.by # "none"
                  /\ job[j].pdfUrl # Null
                  /\ Has(job[j].log, "pdfParse")

\* no document, the submit URL taken from the structure in the scripts: the
\* placeholder was posted to it and the job ended
C9_Witness ==
    /\ NotFound(job["j1"])
    /\ job["j1"].pc = "done"
    /\ job["j1"].page.links = <<>>
    /\ Len(job["j1"].posts) = 1
    /\ job["j1"].posts[1].answer = Placeholder

\* the deadline fires in this step of job j
Fires(j) == job[j].timer = "armed" /\ job'[j].timer = "fired"

\* only the timer and the browser of the job change
OnlyClosesBrowser(j) ==
    /\ job'[j] = [job[j] EXCEPT !.timer = "fired", !.firedAt = FiredAt(job[j].pc),
                                !.browser = IF job[j].browser = "open" THEN "closed" ELSE job[j].browser]
    /\ fs' = fs

\* job j ends in this step, the deadline having fired after its last browser
\* operation, with a submit URL and without a failure of its own
EndsPastDeadline(j) ==
    /\ job[j].pc # "done" /\ job'[j].pc = "done"
    /\ job'[j].firedAt \in {"download", "parse"}
    /\ job'[j].submitUrl # Null
    /\ job'[j].abort = "none"
    /\ ~Has(job'[j].log, "catch")

\* C10: when the deadline fires the browser of the job, if it has one, is
\* closed and nothing else of the job changes; a job that was past its last
\* browser operation then (waiting for the download or the parse) still
\* computes and posts its answer.
C10_DeadlineAdvisory ==
    [][\A j \in Jobs :
          /\ Fires(j) => OnlyClosesBrowser(j)
          /\ EndsPastDeadline(j) =>
                /\ Len(job'[j].posts) = 1
                /\ job'[j].posts[1].answer.num
                /\ job'[j].posts[1].answer = job'[j].answer]_vars

\* the deadline fired during the download and the job posted the sum
C10_Witness ==
    /\ job["j1"].pc = "done"
    /\ job["j1"].firedAt = "download"
    /\ job["j1"].browser = "closed"
    /\ Len(job["j1"].posts) = 1
    /\ job["j1"].posts[1].answer = Numeric(ComputeAnswer(X_table))

\* a maximal run of [A-Za-z0-9+/=\r\n] starts at k
IsRunStart(txt, k) == IsB64RunChar(txt[k]) /\ (k = 1 \/ ~IsB64RunChar(txt[k - 1]))

\* the run, white space taken out
SequenceAt(txt, k) == StripSpace(SubSeq(txt, k, B64RunEnd(txt, k)))

\* the start of the first run whose stripped form has 300 characters or more
\* (0: none)
FirstLongSequence(txt) ==
    FirstIdx(LAMBDA k : IsRunStart(txt, k) /\ Len(SequenceAt(txt, k)) >= 300, 1, Len(txt))

\* a run after the one at b has 300 characters or more and decodes to %PDF
LaterPdfSequence(txt, b) ==
    \E k \in (b + 1)..Len(txt) :
        /\ IsRunStart(txt, k)
        /\ Len(SequenceAt(txt, k)) >= 300
        /\ HasPdfMagic(Base64Decode(SequenceAt(txt, k)))

\* the long-blob scan has just run in job j
LongBlobJustRan(j) == job'[j].scan # job[j].scan /\ Len(job'[j].scan.ran) >= 4

\* the outcome of the long-blob scan when the first long run starts at b: its
\* bytes if they begin with %PDF, nothing otherwise
OneAttempt(jb, txt, b) ==
    IF b # 0 /\ HasPdfMagic(Base64Decode(SequenceAt(txt, b)))
    THEN jb.scan.by = "longBlob" /\ jb.pdfBuffer = Base64Decode(SequenceAt(txt, b))
    ELSE jb.scan.by # "longBlob"

UriPayload(txt, k) == StripSpace(SubSeq(txt, k + Len(S_dataPdf), B64RunEnd(txt, k + Len(S_dataPdf))))

\* a data URI of type application/pdf, base64 encoded, stands at k: the prefix
\* (in any case) and a payload that is not empty
DataUriAt(txt, k) == HasAt(txt, k, S_dataPdf, TRUE) /\ UriPayload(txt, k) # <<>>

\* the first data URI of the text (0: none)
FirstDataUri(txt) == FirstIdx(LAMBDA k : DataUriAt(txt, k), 1, Len(txt))

\* the data-URI scan has just run in job j
DataUriJustRan(j) == job'[j].scan # job[j].scan /\ Len(job'[j].scan.ran) >= 2

\* the job has the decoded payload of the data URI at k (if there is one, k # 0)
\* as its document, and no scan ran after the data-URI scan
InlineBytesOfUri(jb, txt, k) ==
    k # 0 =>
        /\ jb.scan = [by |-> "dataUri", ran |-> <<"direct", "dataUri">>, tried |-> 0]
        /\ jb.pdfBuffer = Base64Decode(UriPayload(txt, k))
        /\ jb.readFrom.path = TempPdfName(S_embedded, now)
        /\ jb.pc = "parse"

\* C12: when the combined text holds a data:application/pdf;base64 URI, the
\* document of the job is the base64 decoding of its payload with the white
\* space taken out, whether or not the bytes begin with %PDF, and the
\* decode-call, long-blob and structure scans do not run.
C12_DataUriBytes ==
    [][\A j \in Jobs :
          DataUriJustRan(j) =>
              InlineBytesOfUri(job'[j], job'[j].combinedText, FirstDataUri(job'[j].combinedText))]_vars

\* a data URI whose payload, broken over two lines, decodes to DOC1, in a text
\* that also holds a decode call of %PDF bytes: the job parses DOC1
C12_Witness ==
    /\ job["j1"].scan.by = "dataUri"
    /\ job["j1"].pdfBuffer = <<68, 79, 67, 49>>
    /\ ~HasPdfMagic(job["j1"].pdfBuffer)
    /\ Len(atobMatches(job["j1"].combinedText)) >= 1
    /\ Has(job["j1"].log, "pdfParse")

\* C13: nothing is retried.  In one job the page is loaded at most once, each
\* external script is fetched once (the fetches issued are those of positions
\* 1..idx), the document is downloaded at most once and at most one submission
\* is posted, whether these succeed or fail; after a failed POST the job ends
\* as after a good one: no exception, the browser closed, the timer cancelled.
C13_NoRetry ==
    \A j \in Jobs :
        /\ Count(job[j].log, "goto") <= 1
        /\ Count(job[j].log, "fetchScript") = job[j].idx
        /\ job[j].idx <= Len(job[j].page.srcs)
        /\ Count(job[j].log, "download") <= 1
        /\ Count(job[j].log, "post") <= 1
        /\ Len(job[j].posts) = Count(job[j].log, "post")
        /\ Count(job[j].log, "postError") <= 1
        /\ Has(job[j].log, "postError") =>
              /\ ~Has(job[j].log, "catch")
              /\ job[j].abort = "none"
              /\ job[j].pc \in {"closeEnd", "closeDemo", "done"}
              /\ job[j].pc = "done" => job[j].browser = "closed" /\ job[j].timer \in {"cleared", "fired"}

\* the first of two script fetches failed and so did the POST of the answer:
\* one fetch each, one POST, and the job ended
C13_Witness ==
    /\ job["j1"].pc = "done"
    /\ job["j1"].failed = {1}
    /\ job["j1"].idx = 2
    /\ job["j1"].answer.num
    /\ Has(job["j1"].log, "postError")
    /\ Len(job["j1"].posts) = 1

\* the line contains 'value' in any case and has two fields or more
IsHeaderLine(line) == Includes(line, S_value, TRUE) /\ Len(SplitCols(line)) >= 2

\* the first header line of the page (0: none)
HeaderOf(lines) == FirstIdx(LAMBDA i : IsHeaderLine(lines[i]), 1, Len(lines))

\* the first field of the header that contains 'value'
ValueField(header) ==
    FirstIdx(LAMBDA c : Includes(SplitCols(header)[c], S_value, TRUE), 1, Len(SplitCols(header)))

\* the line is made of letters, spaces and hyphens and has one field at most
IsProseLine(line) == IsProse(line) /\ Len(SplitCols(line)) <= 1

\* the first prose line after the header h: the end of the table (one past the
\* last line when there is none)
TableEnd(lines, h) ==
    OrIdx(FirstIdx(LAMBDA i : IsProseLine(lines[i]), h + 1, Len(lines)), Len(lines) + 1)

\* what the row adds: the number in its field col, nothing without such a
\* field or without a number in it
RowValue(line, col) ==
    IF col <= Len(SplitCols(line)) THEN Addend(FirstNumber(CleanCell(SplitCols(line)[col]), 1)) ELSE 0

\* the sum of RowValue over the lines lo..hi
RECURSIVE ColumnSum(_, _, _, _)
ColumnSum(lines, lo, hi, col) ==
    IF hi < lo THEN 0 ELSE ColumnSum(lines, lo, hi - 1, col) + RowValue(lines[hi], col)

\* the sum of the value column of the table whose header is line h
SumOfTable(lines, h) == ColumnSum(lines, h + 1, TableEnd(lines, h) - 1, ValueField(lines[h]))

\* the lines of page 2 of the text the job parsed
LinesOf(jb) == PageLines(Page2Text(jb.allText))

\* C14: when page 2 has a header line, the answer is the sum of the numbers in
\* the header's value column over the lines after the header and before the
\* first prose line; rows without that field or without a number add nothing,
\* and nothing after the end of the table is summed, a second table included.
\* For 'Item  Value', 'Apples  100', 'Bananas  -50.5', 'End of report' it is 49.5.
C14_ValueColumnSum ==
    \A j \in Jobs :
        job[j].answer.num =>
            /\ HeaderOf(LinesOf(job[j])) # 0 =>
                  job[j].answer.n = SumOfTable(LinesOf(job[j]), HeaderOf(LinesOf(job[j])))
            /\ job[j].allText = X_table => job[j].answer.n = 49500000
            /\ job[j].allText = X_twoTables => job[j].answer.n = 125250000
            /\ job[j].allText = X_headerInside => job[j].answer.n = 10000000

\* the table with a second table after its end was summed to 125.25 and posted
C14_Witness ==
    /\ job["j1"].pc = "done"
    /\ job["j1"].allText = X_twoTables
    /\ job["j1"].answer = Numeric(125250000)
    /\ Len(job["j1"].posts) = 1
    /\ job["j1"].posts[1].answer = job["j1"].answer

\* [,.0-9]
IsNumChar(c) == IsDigit(c) \/ c = 44 \/ c = 46

\* a maximal run of [,.0-9] starts at k
IsNumRunStart(t, k) == IsNumChar(t[k]) /\ (k = 1 \/ ~IsNumChar(t[k - 1]))

\* the number written by the digits d..e (commas taken out), negative when a
\* minus sign stands just before d
SignedToken(t, d, e) ==
    (IF d > 1 /\ t[d - 1] = 45 THEN -1 ELSE 1)
        * DecimalAt(SelectSeq(SubSeq(t, d, e), LAMBDA c : c # 44), 1)

\* the numeric token of the run of [,.0-9] that starts at k and ends at r: it
\* goes from the first digit of the run to its last (0 for a run without digits)
RunToken(t, k, r) ==
    IF FirstIdx(LAMBDA i : IsDigit(t[i]), k, r) = 0 THEN 0
    ELSE SignedToken(t, FirstIdx(LAMBDA i : IsDigit(t[i]), k, r), LastIdx(LAMBDA i : IsDigit(t[i]), k, r))

\* the sum of the numeric tokens that start in lo..hi
RECURSIVE TokenSum(_, _, _)
TokenSum(t, lo, hi) ==
    IF lo > hi THEN 0
    ELSE IF lo = hi THEN (IF IsNumRunStart(t, lo) THEN RunToken(t, lo, RunEnd(t, lo, IsNumChar)) ELSE 0)
    ELSE TokenSum(t, lo, (lo + hi) \div 2) + TokenSum(t, ((lo + hi) \div 2) + 1, hi)

\* the text of page 2 of the document the job parsed
PageOf(jb) == Page2Text(jb.allText)

\* C15: the answer is the sum of every numeric token of page 2 (integer or
\* decimal, a minus sign before it counted, commas taken out) exactly when
\* page 2 has no header line; with a header line it is the sum of the value
\* column and the other numbers of the page do not count.  'Total cost: 120,
\* tax: 30' gives 150.
C15_FallbackSum ==
    \A j \in Jobs :
        job[j].answer.num =>
            /\ job[j].answer.n =
                  IF HeaderOf(LinesOf(job[j])) = 0
                  THEN TokenSum(PageOf(job[j]), 1, Len(PageOf(job[j])))
                  ELSE SumOfTable(LinesOf(job[j]), HeaderOf(LinesOf(job[j])))
            /\ job[j].allText = X_plain => job[j].answer.n = 150000000
            /\ job[j].allText = X_valueWord => job[j].answer.n = 1203500000
            /\ job[j].allText = X_onePage => job[j].answer.n = 0

\* a page whose only line has the word value and one field: no header, and
\* the numbers of the line were summed to 1203.5
C15_Witness ==
    /\ job["j1"].pc = "done"
    /\ job["j1"].allText = X_valueWord
    /\ HeaderOf(LinesOf(job["j1"])) = 0
    /\ job["j1"].answer = Numeric(1203500000)
    /\ Len(job["j1"].posts) = 1

\* the text the scans see when every script is fetched and the body is read
FullText(pg) == Join(pg.inline \o pg.srcs, S_sep) \o S_sep \o pg.body

\* the submission URL the page offers: a link, a form action or a URL of the
\* body text, else the submit_url or url member of the structure in its scripts
OfferedSubmitUrl(pg) == JsonSubmitUrl(FullText(pg), FindSubmitUrl(pg))

\* the job is past the searches, at the point where it submits or gives up,
\* and it read all of the page it asked for
AtSubmission(jb) ==
    /\ jb.answer.num \/ jb.pc \in {"demoPost", "closeNoPdf"}
    /\ jb.failed = {}
    /\ jb.combinedText \in {Null, FullText(jb.page)}

\* C16: the submission URL the job knows when it submits is the one the page
\* offers (link, form action, or submit_url/url of the embedded structure),
\* whichever strategy resolved the document, or none: two pages with the same
\* offer give the same submission URL.
C16_SubmitUrlIndependent ==
    \A j \in Jobs : AtSubmission(job[j]) => job[j].submitUrl = OfferedSubmitUrl(job[j].page)

\* C17: the value cell is read with its currency sign and its commas taken
\* out: the cell 1,234.50 after a rupee, dollar, euro or pound sign adds
\* exactly 1234.50, as the cell 1234.50 does.
C17_CurrencyStripped ==
    \A j \in Jobs :
        (job[j].answer.num /\ job[j].allText \in CurrencyTexts) =>
            /\ job[j].answer.n = 1234500000
            /\ \A c \in CurrencySigns : ComputeAnswer(X_cell(<<c>> \o V_amount)) = job[j].answer.n

\* the table with the cell of the rupee sign was summed to 1234.50
C17_Witness ==
    /\ job["j1"].pc = "done"
    /\ job["j1"].allText = X_cell(<<8377>> \o V_amount)
    /\ job["j1"].answer = Numeric(1234500000)
    /\ job["j1"].posts # <<>>

RECURSIVE KeptUpTo(_, _, _)
KeptUpTo(srcs, failed, n) ==
    IF n = 0 THEN <<>>
    ELSE KeptUpTo(srcs, failed, n - 1) \o (IF n \in failed THEN <<>> ELSE S_sep \o srcs[n])

\* the inline scripts and the external scripts 1..n that were fetched
HarvestUpTo(jb, n) == Join(jb.page.inline, S_sep) \o KeptUpTo(jb.page.srcs, jb.failed, n)

\* the fetches are issued one at a time and in source order: while fetch idx
\* is under way the fetches 1..idx-1 are settled and their bodies, if fetched,
\* are in the text in that order; the body text is asked for after the last
HarvestInOrder(jb) ==
    /\ jb.pc = "fetchScript" =>
          /\ jb.idx \in 1..Len(jb.page.srcs)
          /\ Count(jb.log, "fetchScript") = jb.idx
          /\ jb.failed \subseteq 1..(jb.idx - 1)
          /\ jb.combinedText = HarvestUpTo(jb, jb.idx - 1)
    /\ jb.pc = "evalBody" =>
          /\ jb.idx = Len(jb.page.srcs)
          /\ Count(jb.log, "fetchScript") = jb.idx
          /\ jb.combinedText = HarvestUpTo(jb, jb.idx)

\* the scans ran on the text of job jb
TextScanned(jb) == Has(jb.log, "evalBody") /\ jb.pc # "evalBody"

\* C19 as stated: the external scripts are fetched one at a time in source
\* order, and the text the scans run on is always the inline scripts, then the
\* fetched external scripts in source order, then the body text.
C19_TextWithBody ==
    \A j \in Jobs :
        /\ HarvestInOrder(job[j])
        /\ TextScanned(job[j]) =>
              job[j].combinedText =
                  HarvestUpTo(job[j], Len(job[j].page.srcs)) \o S_sep \o job[j].page.body

\* C19 amended: the external scripts are fetched one at a time in source
\* order, and the text the scans run on is the inline scripts, then the
\* fetched external scripts in source order, then the body text if it could be
\* read; when reading the body text fails the text ends with the scripts.
C19_TextInOrder ==
    \A j \in Jobs :
        /\ HarvestInOrder(job[j])
        /\ TextScanned(job[j]) =>
              job[j].combinedText =
                  IF job[j].bodyRead
                  THEN HarvestUpTo(job[j], Len(job[j].page.srcs)) \o S_sep \o job[j].page.body
                  ELSE HarvestUpTo(job[j], Len(job[j].page.srcs))

\* inline scripts and two external scripts, the first of which failed: the
\* text is the inline scripts, the second script, the body text
C19_Witness ==
    /\ job["j1"].page.inline # <<>>
    /\ Len(job["j1"].page.srcs) = 2
    /\ job["j1"].failed = {1}
    /\ job["j1"].bodyRead
    /\ job["j1"].combinedText =
          Join(job["j1"].page.inline, S_sep) \o S_sep \o job["j1"].page.srcs[2] \o S_sep \o job["j1"].page.body

\* the strategies that decode bytes and write them to a temporary file
InlineStrategies == {"dataUri", "atob", "longBlob"}

\* C20: a job opens a local file only when one of its own inline-bytes
\* strategies (data URI, decode call, long blob) wrote it, and the file it
\* reads is its own; a reference that is a URL string (a link or a URL of the
\* body text, the url or file member of the embedded structure) is downloaded
\* and never opened as a local file.
C20_LocalOnlyOwnBytes ==
    \A j \in Jobs :
        /\ Has(job[j].log, "readFile") =>
              /\ job[j].scan.by \in InlineStrategies
              /\ job[j].readFrom.by = j
        /\ (job[j].scan.by \in {"direct", "json"} /\ job[j].pdfUrl # Null) =>
              /\ Has(job[j].log, "download")
              /\ ~Has(job[j].log, "readFile")

\* the job ended: its async function returned
Ended(jb) == jb.pc = "done"

\* the jobTimer callback of job j runs in this step
TimerRuns(j) == job[j].timer # "fired" /\ job'[j].timer = "fired"

====
